---- MODULE Spec2Model ----
(***************************************************************************)
(* Model of the site-grader worker: the category score rule, the letter    *)
(* grade table, the grading engine (weights, priority fixes, wasted-spend  *)
(* estimate), the six category analyzers and the scan handler that feeds   *)
(* them into the grading engine.                                           *)
(*                                                                         *)
(* Arithmetic.  The source computes with IEEE-754 doubles.  The model uses *)
(* exact integer arithmetic: category weights are held in hundredths       *)
(* (0.25 -> 25) and Math.round(n/d) is JsRound(n, d), the nearest integer  *)
(* with halves rounded towards plus infinity.  The two agree except where  *)
(* the exact quotient is a half: there the double may land just below it   *)
(* (weights 0.10 + 0.10 with scores 16 and 55 give 35, not 36).            *)
(*                                                                         *)
(* Tables.  A lookup TABLE[key] is modelled on the table's own keys; the   *)
(* strings drawn as inputs are ordinary names, not the names every         *)
(* JavaScript object inherits ("constructor", "toString", ...).            *)
(***************************************************************************)
EXTENDS Integers, Sequences, FiniteSets

VARIABLES
    pc,             \* position of the operation under way
    findings,       \* argument of calculateCategoryScore
    categoryScore,  \* its result
    score,          \* argument of scoreToGrade
    grade,          \* its result
    categories,     \* gradeReport: the ordered category results
    adSpend,        \* gradeReport: ad-spend bracket, or NullString
    businessType,   \* gradeReport: trade category
    report,         \* result of gradeReport, or Null
    page,           \* handleScan: parsed-page signals, or Null
    pageSpeed,      \* handleScan: performance metrics, or Null
    aiResult,       \* handleScan: AI category result, or Null
    competitorData, \* handleScan: competitor lookup result, or Null
    replies,        \* handleScan: what each external service answered
    locals,         \* gradeReport: the accumulators of the call under way;
                    \* recordScan / recordLead: each call's position and stats
    history,        \* gradeReport: arguments and result of each finished call
    request,        \* handleScan: what the request body holds
    response,       \* handleScan / handleReport: the response, or Null
    kv,             \* the REPORTS namespace: report ID -> stored JSON text
    stats,          \* the REPORTS namespace: the analytics record
    events          \* handleScan: the steps taken so far, in order

vars == <<pc, findings, categoryScore, score, grade, categories, adSpend,
          businessType, report, page, pageSpeed, aiResult, competitorData,
          replies, locals, history, request, response, kv, stats, events>>

\* null / undefined of the source, where an object or a result is expected
Null == [null |-> TRUE]
\* null / undefined of the source, where a string is expected
NullString == "<null>"

(***************************************************************************)
(* Bounds                                                                  *)
(***************************************************************************)
MaxFindings == 3        \* longest findings sequence given to the score rule
ScoreMargin == 3        \* scoreToGrade is given scores this far outside 0..100
MaxCategories == 2      \* longest category list of the weighting inputs
MaxFixCats == 2         \* categories of the priority-fix inputs
MaxFixFindings == 2     \* findings per category of the priority-fix inputs
MaxCalls == 3           \* calls of gradeReport made one after another
MaxPageDeviations == 1  \* page signals that differ from the all-good or all-bad page
MaxSpeedDeviations == 1 \* metrics that differ from the all-good or all-bad metrics

(***************************************************************************)
(* Shared helpers                                                          *)
(***************************************************************************)
\* Math.round(n / d) for d > 0: nearest integer, ties towards +infinity
JsRound(n, d) == (2 * n + d) \div (2 * d)

Impacts == {"high", "medium", "low"}

(***************************************************************************)
(* analyzers/types.ts: calculateCategoryScore                              *)
(***************************************************************************)
\* const weight = f.impact === 'high' ? 30 : f.impact === 'medium' ? 20 : 10
severityWeight(f) ==
    IF f.impact = "high" THEN 30 ELSE IF f.impact = "medium" THEN 20 ELSE 10

RECURSIVE scoreLoop(_, _, _)
\* the for loop: accumulates <<earned, total>> over the findings in order
scoreLoop(fs, earned, total) ==
    IF fs = << >> THEN <<earned, total>>
    ELSE LET f == Head(fs)
             weight == severityWeight(f)
         IN  scoreLoop(Tail(fs),
                       IF f.pass THEN earned + weight ELSE earned,
                       total + weight)

RECURSIVE scoreLoop_IgnorePass(_, _, _)
scoreLoop_IgnorePass(fs, earned, total) ==
    IF fs = << >> THEN <<earned, total>>
    ELSE LET weight == severityWeight(Head(fs))
         IN  scoreLoop_IgnorePass(Tail(fs), earned + weight, total + weight)

\* mutant: every finding is counted as earned, passing or not
calculateCategoryScore_IgnorePass(fs) ==
    LET acc == scoreLoop_IgnorePass(fs, 0, 0)
    IN  IF acc[2] = 0 THEN 0 ELSE JsRound(100 * acc[1], acc[2])

RECURSIVE scoreLoop_LastWins(_, _, _)
scoreLoop_LastWins(fs, earned, total) ==
    IF fs = << >> THEN <<earned, total>>
    ELSE LET f == Head(fs)
             weight == severityWeight(f)
         IN  scoreLoop_LastWins(Tail(fs),
                                IF f.pass THEN weight ELSE earned,
                                total + weight)

\* mutant: "earned = weight" instead of "earned += weight"
calculateCategoryScore_LastWins(fs) ==
    LET acc == scoreLoop_LastWins(fs, 0, 0)
    IN  IF acc[2] = 0 THEN 0 ELSE JsRound(100 * acc[1], acc[2])

\* return total === 0 ? 0 : Math.round((earned / total) * 100)
calculateCategoryScore(fs) ==
    LET acc == scoreLoop(fs, 0, 0)
    IN  IF acc[2] = 0 THEN 0 ELSE JsRound(100 * acc[1], acc[2])

(***************************************************************************)
(* scoring: GRADE_THRESHOLDS, scoreToGrade, gradeColor                     *)
(***************************************************************************)
\* mutant: the grades of the two highest rows are exchanged
GRADE_THRESHOLDS_Swapped ==
    << <<97, "A">>,  <<93, "A+">>, <<90, "A-">>,
       <<87, "B+">>, <<83, "B">>,  <<80, "B-">>,
       <<77, "C+">>, <<73, "C">>,  <<70, "C-">>,
       <<67, "D+">>, <<63, "D">>,  <<60, "D-">> >>

GRADE_THRESHOLDS ==
    << <<97, "A+">>, <<93, "A">>,  <<90, "A-">>,
       <<87, "B+">>, <<83, "B">>,  <<80, "B-">>,
       <<77, "C+">>, <<73, "C">>,  <<70, "C-">>,
       <<67, "D+">>, <<63, "D">>,  <<60, "D-">> >>

RECURSIVE gradeScan(_, _)
\* for (const [threshold, grade] of GRADE_THRESHOLDS) if (score >= threshold) return grade
gradeScan(s, table) ==
    IF table = << >> THEN "F"
    ELSE IF s >= Head(table)[1] THEN Head(table)[2]
    ELSE gradeScan(s, Tail(table))

RECURSIVE gradeScan_Strict(_, _)
gradeScan_Strict(s, table) ==
    IF table = << >> THEN "F"
    ELSE IF s > Head(table)[1] THEN Head(table)[2]
    ELSE gradeScan_Strict(s, Tail(table))

\* mutant: "score > threshold" instead of "score >= threshold"
scoreToGrade_Strict(s) == gradeScan_Strict(s, GRADE_THRESHOLDS)

scoreToGrade(s) == gradeScan(s, GRADE_THRESHOLDS)

\* grade.charAt(0) switch
gradeColor(g) ==
    LET letter == IF g \in {"A+", "A", "A-"} THEN "A"
                  ELSE IF g \in {"B+", "B", "B-"} THEN "B"
                  ELSE IF g \in {"C+", "C", "C-"} THEN "C"
                  ELSE IF g \in {"D+", "D", "D-"} THEN "D"
                  ELSE "F"
    IN  CASE letter = "A" -> "#22c55e"
          [] letter = "B" -> "#3b82f6"
          [] letter = "C" -> "#eab308"
          [] letter = "D" -> "#f97316"
          [] OTHER        -> "#ef4444"

(***************************************************************************)
(* scoring: CATEGORY_WEIGHTS (in hundredths: 0.25 is 25)                   *)
(***************************************************************************)
CATEGORY_WEIGHTS ==
    [n \in {"Mobile Experience", "Lead Capture", "Trust & Credibility",
            "Page Speed", "SEO Basics", "Ad Landing Readiness"} |->
        CASE n = "Mobile Experience"    -> 25
          [] n = "Lead Capture"         -> 25
          [] n = "Trust & Credibility"  -> 15
          [] n = "Page Speed"           -> 15
          [] n = "SEO Basics"           -> 10
          [] n = "Ad Landing Readiness" -> 10]

\* mutant: a name without a table entry weighs as much as the lightest entry
categoryWeight_DefaultTen(name) ==
    IF name \in DOMAIN CATEGORY_WEIGHTS THEN CATEGORY_WEIGHTS[name] ELSE 10

\* CATEGORY_WEIGHTS[cat.name] ?? 0
categoryWeight(name) ==
    IF name \in DOMAIN CATEGORY_WEIGHTS THEN CATEGORY_WEIGHTS[name] ELSE 0

(***************************************************************************)
(* scoring: SPEND_MIDPOINTS, INDUSTRY_AD_SPEND, estimateWaste              *)
(***************************************************************************)
SPEND_MIDPOINTS ==
    [b \in {"Under $500", "$500-$1,000", "$1,000-$2,500", "$2,500-$5,000",
            "$5,000+"} |->
        CASE b = "Under $500"    -> 350
          [] b = "$500-$1,000"   -> 750
          [] b = "$1,000-$2,500" -> 1750
          [] b = "$2,500-$5,000" -> 3750
          [] b = "$5,000+"       -> 6500]

INDUSTRY_AD_SPEND ==
    [t \in {"Pool Builder", "HVAC", "Roofing", "Plumbing", "Electrical",
            "Landscaping", "Painting", "General Contractor", "Other"} |->
        CASE t = "Pool Builder"       -> 1500
          [] t = "HVAC"               -> 2600
          [] t = "Roofing"            -> 1800
          [] t = "Plumbing"           -> 2750
          [] t = "Electrical"         -> 2000
          [] t = "Landscaping"        -> 1500
          [] t = "Painting"           -> 1200
          [] t = "General Contractor" -> 2500
          [] t = "Other"              -> 2000]

\* JavaScript truthiness of a "string | null" value
Truthy(str) == str /= NullString /\ str /= ""

\* wasteFactor = ((100 - score) / 100) * 0.7; midWaste = monthlySpend * wasteFactor;
\* low = Math.round(midWaste * 0.8), high = Math.round(midWaste * 1.2)
\* mutant: the 0.7 factor is left out
wasteRange_NoFactor(s, monthlySpend, isEstimated) ==
    [low          |-> JsRound(monthlySpend * (100 - s) * 8, 1000),
     high         |-> JsRound(monthlySpend * (100 - s) * 12, 1000),
     monthlySpend |-> monthlySpend,
     isEstimated  |-> isEstimated]

\* mutant: the waste grows with the score instead of with 100 - score
wasteRange_ScoreAsLoss(s, monthlySpend, isEstimated) ==
    [low          |-> JsRound(monthlySpend * s * 7 * 8, 10000),
     high         |-> JsRound(monthlySpend * s * 7 * 12, 10000),
     monthlySpend |-> monthlySpend,
     isEstimated  |-> isEstimated]

\* const wasteFactor = ((100 - score) / 100) * 0.7; low = Math.round(midWaste
\* * 0.8), high = Math.round(midWaste * 1.2)
wasteRange(s, monthlySpend, isEstimated) ==
    [low          |-> JsRound(monthlySpend * (100 - s) * 7 * 8, 10000),
     high         |-> JsRound(monthlySpend * (100 - s) * 7 * 12, 10000),
     monthlySpend |-> monthlySpend,
     isEstimated  |-> isEstimated]

\* mutant: "none" is treated as no bracket at all
estimateWaste_NoneAsAbsent(s, spend, btype) ==
    IF Truthy(spend) /\ spend /= "none"
    THEN IF spend \notin DOMAIN SPEND_MIDPOINTS THEN Null
         ELSE wasteRange(s, SPEND_MIDPOINTS[spend], FALSE)
    ELSE wasteRange(s,
                    IF btype \in DOMAIN INDUSTRY_AD_SPEND
                    THEN INDUSTRY_AD_SPEND[btype]
                    ELSE INDUSTRY_AD_SPEND["Other"],
                    TRUE)

\* mutant: the trade's industry average is used even when a bracket is given
estimateWaste_AlwaysIndustry(s, spend, btype) ==
    IF spend = "none" THEN Null
    ELSE IF Truthy(spend) /\ spend \notin DOMAIN SPEND_MIDPOINTS THEN Null
    ELSE wasteRange(s,
                    IF btype \in DOMAIN INDUSTRY_AD_SPEND
                    THEN INDUSTRY_AD_SPEND[btype]
                    ELSE INDUSTRY_AD_SPEND["Other"],
                    TRUE)

estimateWaste(s, spend, btype) ==
    IF Truthy(spend) /\ spend /= "none"
    THEN \* const midpoint = SPEND_MIDPOINTS[adSpend]; undefined -> null
         IF spend \notin DOMAIN SPEND_MIDPOINTS THEN Null
         ELSE wasteRange(s, SPEND_MIDPOINTS[spend], FALSE)
    ELSE IF spend = "none"
    THEN Null
    ELSE \* INDUSTRY_AD_SPEND[businessType] ?? INDUSTRY_AD_SPEND['Other']
         wasteRange(s,
                    IF btype \in DOMAIN INDUSTRY_AD_SPEND
                    THEN INDUSTRY_AD_SPEND[btype]
                    ELSE INDUSTRY_AD_SPEND["Other"],
                    TRUE)

(***************************************************************************)
(* scoring: priority fixes                                                 *)
(***************************************************************************)
IMPACT_ORDER == [i \in Impacts |->
    CASE i = "high" -> 0 [] i = "medium" -> 1 [] i = "low" -> 2]

EFFORT_ORDER == [e \in {"quick", "medium", "involved"} |->
    CASE e = "quick" -> 0 [] e = "medium" -> 1 [] e = "involved" -> 2]

effortFromImpact(impact) ==
    CASE impact = "high"   -> "quick"
      [] impact = "medium" -> "medium"
      [] impact = "low"    -> "involved"

\* the comparator given to fixes.sort
compareFixes(a, b) ==
    LET impactDiff == IMPACT_ORDER[a.impact] - IMPACT_ORDER[b.impact]
    IN  IF impactDiff /= 0 THEN impactDiff
        ELSE EFFORT_ORDER[a.effort] - EFFORT_ORDER[b.effort]

RECURSIVE insertFix_Unstable(_, _)
\* mutant: x goes in front of the first element that does not compare smaller
insertFix_Unstable(sorted, x) ==
    IF sorted = << >> THEN <<x>>
    ELSE IF compareFixes(x, Head(sorted)) <= 0 THEN <<x>> \o sorted
    ELSE <<Head(sorted)>> \o insertFix_Unstable(Tail(sorted), x)

RECURSIVE insertFix(_, _)
\* x goes in front of the first element that compares greater than x
insertFix(sorted, x) ==
    IF sorted = << >> THEN <<x>>
    ELSE IF compareFixes(x, Head(sorted)) < 0 THEN <<x>> \o sorted
    ELSE <<Head(sorted)>> \o insertFix(Tail(sorted), x)

RECURSIVE sortFixes(_, _)
\* Array.prototype.sort: a stable sort by the comparator
sortFixes(fixes, sorted) ==
    IF fixes = << >> THEN sorted
    ELSE sortFixes(Tail(fixes), insertFix(sorted, Head(fixes)))

RECURSIVE pushFailing_NoFilter(_, _)
\* mutant: the "if (!f.pass)" test is missing
pushFailing_NoFilter(fs, fixes) ==
    IF fs = << >> THEN fixes
    ELSE LET f == Head(fs)
         IN  pushFailing_NoFilter(Tail(fs),
                 Append(fixes, [label  |-> f.label,
                                detail |-> f.detail,
                                effort |-> effortFromImpact(f.impact),
                                impact |-> f.impact]))

RECURSIVE pushFailing(_, _)
\* inner loop: for (const f of cat.findings) if (!f.pass) fixes.push({...})
pushFailing(fs, fixes) ==
    IF fs = << >> THEN fixes
    ELSE LET f == Head(fs)
         IN  pushFailing(Tail(fs),
                 IF ~f.pass
                 THEN Append(fixes, [label  |-> f.label,
                                     detail |-> f.detail,
                                     effort |-> effortFromImpact(f.impact),
                                     impact |-> f.impact])
                 ELSE fixes)

RECURSIVE collectLoop(_, _)
\* outer loop: for (const cat of categories)
collectLoop(cats, fixes) ==
    IF cats = << >> THEN fixes
    ELSE collectLoop(Tail(cats), pushFailing(Head(cats).findings, fixes))

collectPriorityFixes(cats) == sortFixes(collectLoop(cats, << >>), << >>)

(***************************************************************************)
(* scoring: gradeReport                                                    *)
(***************************************************************************)
RECURSIVE weighLoop(_, _, _)
\* categories.map callback: weightedSum += cat.score * weight; weightTotal += weight
weighLoop(cats, weightedSum, weightTotal) ==
    IF cats = << >> THEN <<weightedSum, weightTotal>>
    ELSE LET cat == Head(cats)
             weight == categoryWeight(cat.name)
         IN  weighLoop(Tail(cats), weightedSum + cat.score * weight,
                       weightTotal + weight)

\* mutant: the findings of a category come out in reverse order
gradedCategory_Reversed(cat) ==
    LET g == scoreToGrade(cat.score)
        n == Len(cat.findings)
    IN  [name       |-> cat.name,
         score      |-> cat.score,
         grade      |-> g,
         gradeColor |-> gradeColor(g),
         findings   |-> [i \in 1..n |-> cat.findings[n + 1 - i]]]

\* categories.map((cat) => ({ name, score, grade, gradeColor, findings }))
gradedCategory(cat) ==
    LET g == scoreToGrade(cat.score)
    IN  [name       |-> cat.name,
         score      |-> cat.score,
         grade      |-> g,
         gradeColor |-> gradeColor(g),
         findings   |-> cat.findings]

\* the accumulators a call starts with: let weightedSum = 0; let weightTotal = 0
\* in gradeReport, const fixes = [] in collectPriorityFixes
\* mutant: the accumulators keep what the call before left in them
gradeReportLocals_Kept(prev) ==
    IF prev = Null THEN [weightedSum |-> 0, weightTotal |-> 0, fixes |-> << >>]
    ELSE prev

gradeReportLocals(prev) ==
    [weightedSum |-> 0, weightTotal |-> 0, fixes |-> << >>]

\* overallScore, overallGrade and the returned object
assembleReport(acc, fixes, cats, spend, btype) ==
    LET overallScore == IF acc[2] > 0 THEN JsRound(acc[1], acc[2]) ELSE 0
    IN  [overallScore  |-> overallScore,
         overallGrade  |-> scoreToGrade(overallScore),
         categories    |-> [i \in 1..Len(cats) |-> gradedCategory(cats[i])],
         priorityFixes |-> fixes,
         wastedSpend   |-> estimateWaste(overallScore, spend, btype)]

\* mutant: the weighted sum is not renormalised by the weights present
gradeReport_NoRenormalise(cats, spend, btype) ==
    LET acc == weighLoop(cats, 0, 0)
        overallScore == IF acc[2] > 0 THEN JsRound(acc[1], 100) ELSE 0
    IN  [overallScore  |-> overallScore,
         overallGrade  |-> scoreToGrade(overallScore),
         categories    |-> [i \in 1..Len(cats) |-> gradedCategory(cats[i])],
         priorityFixes |-> collectPriorityFixes(cats),
         wastedSpend   |-> estimateWaste(overallScore, spend, btype)]

gradeReport(cats, spend, btype) ==
    assembleReport(weighLoop(cats, 0, 0), collectPriorityFixes(cats),
                   cats, spend, btype)

(***************************************************************************)
(* analyzers: the six category analyzers                                   *)
(*                                                                         *)
(* A page is the record of the ParsedPage signals the analyzers read       *)
(* (phoneCount is phoneNumbers.length, titleLen, descLen and h1Len are the *)
(* lengths of title, metaDescription and the tag-stripped, trimmed h1,     *)
(* titleIsGeneric is the /^home$/i test).  Speed metrics are integers:     *)
(* performanceScore in percent, clsScore in hundredths, times in ms.  A    *)
(* detail is the name of the sentence chosen followed by the values        *)
(* interpolated into it.                                                   *)
(***************************************************************************)
Finding(label, pass, detail, impact) ==
    [label |-> label, pass |-> pass, detail |-> detail, impact |-> impact]

\* mutant: a load time that passes is reported with low impact
analyzeMobile_ImpactByPass(pg, speed) ==
    LET hasSpeed       == speed /= Null
        viewportPass   == (hasSpeed /\ speed.viewportSet) \/ pg.hasViewportMeta
        responsivePass == (hasSpeed /\ speed.isResponsive)
                              \/ (pg.hasViewportMeta /\ pg.hasResponsiveCSS)
        fontSizePass   == (hasSpeed /\ speed.fontSizeOk)
                              \/ (pg.hasResponsiveCSS /\ ~hasSpeed)
        tapTargetsPass == (hasSpeed /\ speed.tapTargetsOk)
                              \/ (pg.hasResponsiveCSS /\ ~hasSpeed)
        verdict(b)     == IF b THEN "pass" ELSE "fail"
        fs == (IF hasSpeed
               THEN << Finding("Mobile load time", speed.lcpMs < 3000,
                               <<verdict(speed.lcpMs < 3000), speed.lcpMs>>,
                               IF speed.lcpMs < 3000 THEN "low" ELSE "high") >>
               ELSE << >>)
              \o << Finding("Mobile-responsive layout", responsivePass,
                            <<verdict(responsivePass)>>, "high"),
                    Finding("Viewport configured", viewportPass,
                            <<verdict(viewportPass)>>, "medium"),
                    Finding("Readable text on mobile", fontSizePass,
                            <<verdict(fontSizePass)>>, "medium"),
                    Finding("Tap-friendly buttons", tapTargetsPass,
                            <<verdict(tapTargetsPass)>>, "medium") >>
    IN  [name |-> "Mobile Experience", score |-> calculateCategoryScore(fs),
         findings |-> fs]

\* analyzers/mobile.ts
analyzeMobile(pg, speed) ==
    LET hasSpeed       == speed /= Null
        viewportPass   == (hasSpeed /\ speed.viewportSet) \/ pg.hasViewportMeta
        responsivePass == (hasSpeed /\ speed.isResponsive)
                              \/ (pg.hasViewportMeta /\ pg.hasResponsiveCSS)
        fontSizePass   == (hasSpeed /\ speed.fontSizeOk)
                              \/ (pg.hasResponsiveCSS /\ ~hasSpeed)
        tapTargetsPass == (hasSpeed /\ speed.tapTargetsOk)
                              \/ (pg.hasResponsiveCSS /\ ~hasSpeed)
        verdict(b)     == IF b THEN "pass" ELSE "fail"
        fs == (IF hasSpeed
               THEN << Finding("Mobile load time", speed.lcpMs < 3000,
                               <<verdict(speed.lcpMs < 3000), speed.lcpMs>>,
                               "high") >>
               ELSE << >>)
              \o << Finding("Mobile-responsive layout", responsivePass,
                            <<verdict(responsivePass)>>, "high"),
                    Finding("Viewport configured", viewportPass,
                            <<verdict(viewportPass)>>, "medium"),
                    Finding("Readable text on mobile", fontSizePass,
                            <<verdict(fontSizePass)>>, "medium"),
                    Finding("Tap-friendly buttons", tapTargetsPass,
                            <<verdict(tapTargetsPass)>>, "medium") >>
    IN  [name |-> "Mobile Experience", score |-> calculateCategoryScore(fs),
         findings |-> fs]

\* analyzers/lead-capture.ts
analyzeLeadCapture(pg) ==
    LET verdict(b) == IF b THEN "pass" ELSE "fail"
        fs == << Finding("Phone number visible", pg.phoneCount > 0,
                         <<verdict(pg.phoneCount > 0), pg.phoneCount>>, "high"),
                 Finding("Click-to-call phone link", pg.hasClickToCall,
                         <<verdict(pg.hasClickToCall)>>, "high"),
                 Finding("Contact form present", pg.formCount > 0,
                         <<verdict(pg.formCount > 0), pg.formCount>>, "high"),
                 Finding("Call-to-action above the fold", pg.hasCtaAboveFold,
                         <<verdict(pg.hasCtaAboveFold)>>, "medium"),
                 Finding("Multiple conversion points", pg.ctaCount >= 2,
                         <<verdict(pg.ctaCount >= 2), pg.ctaCount>>, "medium") >>
    IN  [name |-> "Lead Capture", score |-> calculateCategoryScore(fs),
         findings |-> fs]

\* analyzers/trust.ts
analyzeTrust(pg) ==
    LET verdict(b) == IF b THEN "pass" ELSE "fail"
        hasEnoughPhotos == pg.hasRealPhotos /\ pg.imageCount >= 3
        fs == << Finding("Customer testimonials", pg.hasTestimonials,
                         <<verdict(pg.hasTestimonials)>>, "high"),
                 Finding("Review platform linked", pg.hasReviews,
                         <<verdict(pg.hasReviews)>>, "high"),
                 Finding("License and insurance mentioned", pg.hasLicense,
                         <<verdict(pg.hasLicense)>>, "medium"),
                 Finding("About page exists", pg.hasAboutPage,
                         <<verdict(pg.hasAboutPage)>>, "medium"),
                 Finding("Real project photos", hasEnoughPhotos,
                         IF hasEnoughPhotos THEN <<"pass", pg.imageCount>>
                         ELSE IF pg.imageCount < 3
                              THEN <<"too few images", pg.imageCount>>
                              ELSE <<"stock photos">>,
                         "medium") >>
    IN  [name |-> "Trust & Credibility", score |-> calculateCategoryScore(fs),
         findings |-> fs]

\* analyzers/speed.ts, with metrics
analyzeSpeedMeasured(speed) ==
    LET verdict(b) == IF b THEN "pass" ELSE "fail"
        fs == << Finding("Overall performance score",
                         speed.performanceScore >= 50,
                         <<IF speed.performanceScore >= 90 THEN "excellent"
                           ELSE IF speed.performanceScore >= 50 THEN "acceptable"
                           ELSE "fail", speed.performanceScore>>, "high"),
                 Finding("Page weight", speed.totalBytes < 3000000,
                         <<verdict(speed.totalBytes < 3000000), speed.totalBytes>>,
                         "high"),
                 Finding("First paint time", speed.fcpMs < 2000,
                         <<verdict(speed.fcpMs < 2000), speed.fcpMs>>, "medium"),
                 Finding("Layout stability", speed.clsScore < 10,
                         <<verdict(speed.clsScore < 10), speed.clsScore>>,
                         "medium"),
                 Finding("Interactivity speed", speed.fidMs < 300,
                         <<verdict(speed.fidMs < 300), speed.fidMs>>, "low") >>
    IN  [name |-> "Page Speed", score |-> calculateCategoryScore(fs),
         findings |-> fs]

\* mutant: without metrics the category has no finding at all
analyzeSpeed_EmptyWhenNull(speed) ==
    IF speed = Null
    THEN [name |-> "Page Speed", score |-> 0, findings |-> << >>]
    ELSE analyzeSpeedMeasured(speed)

\* mutant: without metrics the unavailable finding is of medium impact and
\* is joined by a failing page-weight finding
analyzeSpeed_TwoWhenNull(speed) ==
    IF speed = Null
    THEN [name |-> "Page Speed", score |-> 0,
          findings |-> << Finding("Speed data unavailable", FALSE,
                                  <<"unavailable">>, "medium"),
                          Finding("Page weight", FALSE,
                                  <<"unavailable">>, "high") >>]
    ELSE analyzeSpeedMeasured(speed)

\* analyzers/speed.ts
analyzeSpeed(speed) ==
    IF speed = Null
    THEN [name |-> "Page Speed", score |-> 0,
          findings |-> << Finding("Speed data unavailable", FALSE,
                                  <<"unavailable">>, "high") >>]
    ELSE analyzeSpeedMeasured(speed)

\* analyzers/seo.ts
analyzeSeo(pg, btype) ==
    LET verdict(b) == IF b THEN "pass" ELSE "fail"
        titleOk == pg.titleLen > 10 /\ ~pg.titleIsGeneric
        fs == << Finding("Title tag", titleOk,
                         IF titleOk THEN <<"pass", pg.titleLen>>
                         ELSE IF pg.titleLen = 0 THEN <<"no title">>
                         ELSE IF pg.titleIsGeneric THEN <<"generic title", btype>>
                         ELSE <<"short title", pg.titleLen>>,
                         "high"),
                 Finding("Meta description", pg.descLen > 20,
                         IF pg.descLen > 20 THEN <<"pass", pg.descLen>>
                         ELSE IF pg.descLen = 0 THEN <<"no description">>
                         ELSE <<"short description", pg.descLen>>,
                         "high"),
                 Finding("Main heading (H1)", pg.h1Len > 0,
                         <<verdict(pg.h1Len > 0), pg.h1Len>>, "medium"),
                 Finding("SSL certificate (secure site)", pg.isHttps,
                         <<verdict(pg.isHttps)>>, "medium"),
                 Finding("Local business schema", pg.hasLocalSchema,
                         IF pg.hasLocalSchema THEN <<"pass">>
                         ELSE IF pg.hasSchema THEN <<"schema not local">>
                         ELSE <<"no schema", btype>>,
                         "medium") >>
    IN  [name |-> "SEO Basics", score |-> calculateCategoryScore(fs),
         findings |-> fs]

\* analyzers/ad-readiness.ts
analyzeAdReadiness(pg, speed, btype) ==
    LET verdict(b) == IF b THEN "pass" ELSE "fail"
        tooManyNavLinks == pg.navLinkCount > 8
        tooFewCtas      == pg.ctaCount < 2
        isDistracted    == tooManyNavLinks /\ tooFewCtas
        fs == << Finding("Service mentioned above the fold", pg.mentionsService,
                         <<verdict(pg.mentionsService), btype>>, "high"),
                 Finding("Service area mentioned", pg.mentionsLocation,
                         <<verdict(pg.mentionsLocation)>>, "high") >>
              \o (IF speed /= Null
                  THEN << Finding("Ad click load time", speed.lcpMs < 4000,
                                  <<verdict(speed.lcpMs < 4000), speed.lcpMs>>,
                                  "high") >>
                  ELSE << >>)
              \o << Finding("Page focus and clarity", ~isDistracted,
                            IF ~isDistracted THEN <<"pass">>
                            ELSE <<"fail", pg.navLinkCount, pg.ctaCount>>,
                            "medium") >>
    IN  [name |-> "Ad Readiness", score |-> calculateCategoryScore(fs),
         findings |-> fs]

(***************************************************************************)
(* analyzers/ai-review.ts: runAiReview, from the array parsed out of the   *)
(* model's reply                                                           *)
(***************************************************************************)
\* mutant: the score is taken over the array before it is filtered
runAiReview_ScoreBeforeFilter(parsed) ==
    IF parsed = << >> THEN Null
    ELSE LET fs == SelectSeq(parsed, LAMBDA f : f.impact \in Impacts)
         IN  IF fs = << >> THEN Null
             ELSE [name |-> "Content Quality",
                   score |-> calculateCategoryScore(parsed), findings |-> fs]

runAiReview(parsed) ==
    IF parsed = << >> THEN Null
    ELSE LET fs == SelectSeq(parsed, LAMBDA f : f.impact \in Impacts)
         IN  IF fs = << >> THEN Null
             ELSE [name |-> "Content Quality",
                   score |-> calculateCategoryScore(fs), findings |-> fs]


(***************************************************************************)
(* The three external calls, from what the service answered.  A reply is   *)
(* a record with a kind: "nokey" (the API key is not configured),          *)
(* "network" (fetch rejects), "timeout" (no answer arrives), "status" (an  *)
(* HTTP error status), "not-json" (the body does not parse), a kind for    *)
(* each shape the body can lack, or "ok" with the payload.                 *)
(***************************************************************************)
Thrown  == [thrown |-> TRUE]    \* the call rejects with an exception
Pending == [pending |-> TRUE]   \* the call has not settled

\* what runPageSpeed builds from a lighthouseResult without audits and categories
ZeroSpeed ==
    [performanceScore |-> 0, lcpMs |-> 0, clsScore |-> 0, fidMs |-> 0,
     fcpMs |-> 0, totalBytes |-> 0, isResponsive |-> FALSE,
     viewportSet |-> FALSE, fontSizeOk |-> FALSE, tapTargetsOk |-> FALSE]

\* analyzers/pagespeed.ts: fetch is called without an abort signal and only
\* the fetch itself is inside try/catch
runPageSpeed(reply) ==
    CASE reply.kind = "network"       -> Null
      [] reply.kind = "timeout"       -> Pending
      [] reply.kind = "status"        -> Null
      [] reply.kind = "not-json"      -> Thrown
      [] reply.kind = "no-lighthouse" -> Thrown
      [] reply.kind = "no-audits"     -> ZeroSpeed
      [] reply.kind = "ok"            -> reply.metrics

\* analyzers/ai-review.ts: everything after the key test is inside try/catch,
\* and the fetch is aborted after 25 seconds
runAiReviewCall(reply) ==
    CASE reply.kind = "nokey"    -> Null
      [] reply.kind = "network"  -> Null
      [] reply.kind = "timeout"  -> Null
      [] reply.kind = "status"   -> Null
      [] reply.kind = "not-json" -> Null
      [] reply.kind = "no-array" -> Null
      [] reply.kind = "ok"       -> runAiReview(reply.parsed)

\* analyzers/competitors.ts: everything after the key test is inside
\* try/catch, and the fetch is aborted after 10 seconds
findCompetitors(reply, btype) ==
    CASE reply.kind = "nokey"       -> Null
      [] reply.kind = "no-location" -> Null
      [] reply.kind = "network"     -> Null
      [] reply.kind = "timeout"     -> Null
      [] reply.kind = "status"      -> Null
      [] reply.kind = "not-json"    -> Null
      [] reply.kind = "ok"          ->
            LET kept == SelectSeq(reply.places,
                                  LAMBDA p : ~p.isSelf /\ p.rating > 0)
                top == SubSeq(kept, 1, IF Len(kept) < 5 THEN Len(kept) ELSE 5)
            IN  IF reply.places = << >> \/ top = << >> THEN Null
                ELSE [competitors |->
                          [i \in 1..Len(top) |->
                              [name |-> top[i].name, rating |-> top[i].rating]],
                      searchQuery |-> <<btype, "in", "Bradenton, FL">>]

(***************************************************************************)
(* The REPORTS namespace and analytics.ts.  A JavaScript object used as a  *)
(* map, and the namespace itself, is a function whose domain is the keys   *)
(* present; the lastUpdated timestamp is left out.                         *)
(***************************************************************************)
EmptyMap == [k \in {} |-> 0]

\* map[key] = value
mapPut(map, key, value) ==
    [k \in DOMAIN map \cup {key} |-> IF k = key THEN value ELSE map[k]]

\* map[key] = (map[key] ?? 0) + 1
inc(map, key) ==
    mapPut(map, key, (IF key \in DOMAIN map THEN map[key] ELSE 0) + 1)

emptyStats ==
    [scans |-> [total |-> 0, byType |-> EmptyMap, byGrade |-> EmptyMap,
                byAdSpend |-> EmptyMap],
     leads |-> [total |-> 0, byType |-> EmptyMap, byGrade |-> EmptyMap]]

\* const raw = await env.REPORTS.get(STATS_KEY); raw ? JSON.parse(raw) : emptyStats()
getStats(raw) == IF raw = Null THEN emptyStats ELSE raw

\* grade.charAt(0)
gradeLetter(g) ==
    CASE g \in {"A+", "A", "A-"} -> "A"
      [] g \in {"B+", "B", "B-"} -> "B"
      [] g \in {"C+", "C", "C-"} -> "C"
      [] g \in {"D+", "D", "D-"} -> "D"
      [] OTHER                   -> "F"

\* recordScan between its read and its write
scanRecorded(st, btype, g, spend) ==
    [st EXCEPT !.scans =
        [total     |-> st.scans.total + 1,
         byType    |-> inc(st.scans.byType, btype),
         byGrade   |-> inc(st.scans.byGrade, gradeLetter(g)),
         byAdSpend |-> inc(st.scans.byAdSpend,
                           IF spend = NullString THEN "none" ELSE spend)]]

\* recordLead between its read and its write
leadRecorded(st, btype, g) ==
    [st EXCEPT !.leads =
        [total   |-> st.leads.total + 1,
         byType  |-> inc(st.leads.byType, btype),
         byGrade |-> inc(st.leads.byGrade, gradeLetter(g))]]

(***************************************************************************)
(* Inputs                                                                  *)
(***************************************************************************)
\* values of the variables an operation does not use
IdleScore  == findings = << >> /\ categoryScore = Null
IdleGrade  == score = 0 /\ grade = Null
IdleReport == categories = << >> /\ adSpend = NullString /\ businessType = "Other"
IdleScan   ==
    /\ page = Null /\ pageSpeed = Null /\ aiResult = Null
    /\ competitorData = Null /\ replies = Null
IdleCalls  == locals = Null /\ history = << >>
IdleStore  ==
    /\ request = Null /\ response = Null /\ events = << >>
    /\ kv = EmptyMap /\ stats = Null

RECURSIVE SeqsUpTo(_, _)
\* all sequences over S of length at most n
SeqsUpTo(S, n) ==
    IF n = 0 THEN {<< >>}
    ELSE LET shorter == SeqsUpTo(S, n - 1)
         IN  shorter \cup {Append(q, x) : q \in shorter, x \in S}

\* scores given to scoreToGrade
GradeInputs == (0 - ScoreMargin)..(100 + ScoreMargin)

\* findings given to calculateCategoryScore
ScoreFindings ==
    [label : {"check"}, pass : BOOLEAN, detail : {"text"}, impact : Impacts]

\* weighting inputs: names with each table weight and one name outside the
\* table; at these scores the double evaluation of weightedSum / weightTotal
\* rounds as the exact quotient does, exact halves included
SampleNames == {"Mobile Experience", "Page Speed", "Ad Landing Readiness",
                "Content Quality"}
SampleScores == {0, 85, 100}
ScoreCases ==
    SeqsUpTo([name : SampleNames, score : SampleScores, findings : {<< >>}],
             MaxCategories)

\* the six-category scenario
ScenarioCategories ==
    << [name |-> "Mobile Experience",    score |-> 80, findings |-> << >>],
       [name |-> "Lead Capture",         score |-> 60, findings |-> << >>],
       [name |-> "Trust & Credibility",  score |-> 90, findings |-> << >>],
       [name |-> "Page Speed",           score |-> 70, findings |-> << >>],
       [name |-> "SEO Basics",           score |-> 50, findings |-> << >>],
       [name |-> "Ad Landing Readiness", score |-> 40, findings |-> << >>] >>

\* priority-fix inputs: every finding has its own label, and any verdict; each
\* category has one finding fewer than the one before it, and at least one
FixCatNames == <<"Lead Capture", "Trust & Credibility", "SEO Basics">>
FixLabels ==
    << <<"Phone number visible", "Click-to-call phone link",
         "Contact form present">>,
       <<"Customer testimonials", "Review platform linked",
         "License and insurance mentioned">>,
       <<"Title tag", "Meta description", "Main heading (H1)">> >>
Verdicts == [pass : BOOLEAN, impact : Impacts]

\* number of findings of the c-th category
FixCount(c) == IF MaxFixFindings - c + 1 > 1 THEN MaxFixFindings - c + 1 ELSE 1

\* positions <<c, j>> of the findings of the priority-fix inputs
FixPositions ==
    UNION {{<<c, j>> : j \in 1..FixCount(c)} : c \in 1..MaxFixCats}

FixCategory(c, v) ==
    LET fs == [j \in 1..FixCount(c) |->
                  [label  |-> FixLabels[c][j],
                   pass   |-> v[<<c, j>>].pass,
                   detail |-> IF v[<<c, j>>].pass THEN "ok: " \o FixLabels[c][j]
                              ELSE "fix: " \o FixLabels[c][j],
                   impact |-> v[<<c, j>>].impact]]
    IN  [name |-> FixCatNames[c], score |-> calculateCategoryScore(fs),
         findings |-> fs]

FixCases ==
    {[c \in 1..MaxFixCats |-> FixCategory(c, v)] :
        v \in [FixPositions -> Verdicts]}

\* renormalisation inputs: every non-empty selection of the six weighted
\* categories, in the order the analyzers run, all with one score
WeightedNames ==
    <<"Mobile Experience", "Lead Capture", "Trust & Credibility",
      "Page Speed", "SEO Basics", "Ad Landing Readiness">>
UniformCases ==
    {[i \in 1..Len(SelectSeq(WeightedNames, LAMBDA n : n \in S)) |->
         [name     |-> SelectSeq(WeightedNames, LAMBDA n : n \in S)[i],
          score    |-> s,
          findings |-> << >>]] :
        S \in (SUBSET DOMAIN CATEGORY_WEIGHTS) \ {{}}, s \in 0..100}

\* inputs with an AI category behind weighted categories: the weighted ones
\* fail every check at medium impact, or fail every check with high impact on
\* the first check of each, or pass the first check of each only; the AI
\* category has any score and a passing, a high-impact failing and a
\* low-impact failing finding, in either order
AppendedBases ==
    {[c \in 1..MaxFixCats |->
         FixCategory(c, [q \in FixPositions |-> [pass |-> FALSE, impact |-> "medium"]])],
     [c \in 1..MaxFixCats |->
         FixCategory(c, [q \in FixPositions |->
                            [pass |-> FALSE,
                             impact |-> IF q[2] = 1 THEN "high" ELSE "low"]])],
     [c \in 1..MaxFixCats |->
         FixCategory(c, [q \in FixPositions |->
                            [pass |-> q[2] = 1, impact |-> "high"]])]}
AppendedFindings ==
    LET ok   == Finding("Clear headline", TRUE, "ok: Clear headline", "medium")
        high == Finding("Compelling offer", FALSE, "fix: Compelling offer", "high")
        low  == Finding("Professional tone", FALSE, "fix: Professional tone", "low")
    IN  {<<ok, high, low>>, <<low, ok, high>>, <<ok>>}
AppendedCases ==
    {Append(base, [name |-> "Content Quality", score |-> s, findings |-> fs]) :
        base \in AppendedBases, s \in 0..100, fs \in AppendedFindings}

\* wasted-spend inputs: one weighted category at every score, so that the
\* overall score is that score
WasteCases ==
    {<<[name |-> "Page Speed", score |-> s, findings |-> << >>]>> : s \in 0..100}

AdSpends == DOMAIN SPEND_MIDPOINTS \cup {NullString, "none", "", "$9,999"}
BusinessTypes == {"HVAC", "Plumbing", "Other", "Dog Grooming"}

(***************************************************************************)
(* calculateCategoryScore applied to a drawn findings sequence             *)
(***************************************************************************)
InitScore ==
    /\ IdleCalls /\ IdleStore
    /\ IdleGrade /\ IdleReport /\ report = Null /\ IdleScan
    /\ categoryScore = Null
    /\ findings \in SeqsUpTo(ScoreFindings, MaxFindings)
    /\ pc = "call"

CalculateCategoryScore ==
    /\ pc = "call"
    /\ categoryScore' = calculateCategoryScore(findings)
    /\ pc' = "done"
    /\ UNCHANGED <<findings, score, grade, categories, adSpend, businessType,
                   report, page, pageSpeed, aiResult,
                   competitorData, replies, locals, history,
                   request, response, kv, stats, events>>

NextScore == CalculateCategoryScore
SpecScore == InitScore /\ [][NextScore]_vars

(***************************************************************************)
(* scoreToGrade applied to a drawn score                                   *)
(***************************************************************************)
InitGrade ==
    /\ IdleCalls /\ IdleStore
    /\ IdleScore /\ IdleReport /\ report = Null /\ IdleScan
    /\ grade = Null
    /\ score \in GradeInputs
    /\ pc = "call"

ScoreToGrade ==
    /\ pc = "call"
    /\ grade' = scoreToGrade(score)
    /\ pc' = "done"
    /\ UNCHANGED <<findings, categoryScore, score, categories, adSpend,
                   businessType, report, page, pageSpeed, aiResult,
                   competitorData, replies, locals, history,
                   request, response, kv, stats, events>>

NextGrade == ScoreToGrade
SpecGrade == InitGrade /\ [][NextGrade]_vars

(***************************************************************************)
(* gradeReport applied to drawn categories, bracket and business type      *)
(***************************************************************************)
Init ==
    /\ IdleCalls /\ IdleStore
    /\ IdleScore /\ IdleGrade /\ IdleScan
    /\ report = Null
    /\ \/ /\ categories \in ScoreCases \cup {ScenarioCategories}
          /\ adSpend \in AdSpends
          /\ businessType \in BusinessTypes
       \/ /\ categories \in FixCases
          /\ adSpend = NullString
          /\ businessType = "Plumbing"
       \/ /\ categories \in UniformCases
          /\ adSpend = NullString
          /\ businessType = "Other"
       \/ /\ categories \in WasteCases
          /\ adSpend \in AdSpends
          /\ businessType \in BusinessTypes
       \/ /\ categories \in AppendedCases
          /\ adSpend \in {NullString, "$500-$1,000"}
          /\ businessType = "Roofing"
    /\ pc = "call"

GradeReport ==
    /\ pc = "call"
    /\ report' = gradeReport(categories, adSpend, businessType)
    /\ pc' = "done"
    /\ UNCHANGED <<findings, categoryScore, score, grade, categories, adSpend,
                   businessType, page, pageSpeed, aiResult,
                   competitorData, replies, locals, history,
                   request, response, kv, stats, events>>

Next == GradeReport
Spec == Init /\ [][Next]_vars

(***************************************************************************)
(* gradeReport called several times over, each call with its own           *)
(* accumulators                                                            *)
(***************************************************************************)
\* a category list with failing and passing findings
CallSample ==
    << [name |-> "Lead Capture", score |-> 40, findings |->
          << Finding("Phone number visible", FALSE, <<"phone-missing">>, "high"),
             Finding("Contact form present", TRUE, <<"form-found", 1>>, "medium") >>],
       [name |-> "SEO Basics", score |-> 0, findings |->
          << Finding("Title tag", FALSE, <<"title-missing">>, "low"),
             Finding("Meta description", FALSE, <<"desc-missing">>, "high") >>] >>
CallCategories == {<< >>, ScenarioCategories, CallSample}
CallSpends == {NullString, "$1,000-$2,500"}
CallTypes == {"HVAC", "Other"}

InitCalls ==
    /\ IdleCalls /\ IdleStore
    /\ IdleScore /\ IdleGrade /\ IdleReport /\ IdleScan
    /\ report = Null
    /\ pc = "idle"

CallGradeReport ==
    /\ pc = "idle"
    /\ Len(history) < MaxCalls
    /\ \E cats \in CallCategories, spend \in CallSpends, btype \in CallTypes :
          LET fresh == gradeReportLocals(locals)
              acc == weighLoop(cats, fresh.weightedSum, fresh.weightTotal)
              fixes == sortFixes(collectLoop(cats, fresh.fixes), << >>)
              result == assembleReport(acc, fixes, cats, spend, btype)
          IN  /\ categories' = cats
              /\ adSpend' = spend
              /\ businessType' = btype
              /\ locals' = [weightedSum |-> acc[1], weightTotal |-> acc[2],
                            fixes |-> fixes]
              /\ report' = result
              /\ history' = Append(history,
                                   [categories |-> cats, adSpend |-> spend,
                                    businessType |-> btype, report |-> result])
    /\ UNCHANGED <<pc, findings, categoryScore, score, grade, page, pageSpeed,
                   aiResult, competitorData, replies,
                   request, response, kv, stats, events>>

NextCalls == CallGradeReport
SpecCalls == InitCalls /\ [][NextCalls]_vars

(***************************************************************************)
(* handleScan: fetch, analyze, join the AI review, grade                   *)
(***************************************************************************)
GoodPage ==
    [hasViewportMeta |-> TRUE, hasResponsiveCSS |-> TRUE,
     phoneCount |-> 1, hasClickToCall |-> TRUE, formCount |-> 1,
     hasCtaAboveFold |-> TRUE, ctaCount |-> 3, navLinkCount |-> 5,
     hasTestimonials |-> TRUE, hasReviews |-> TRUE, hasLicense |-> TRUE,
     hasAboutPage |-> TRUE, hasRealPhotos |-> TRUE, imageCount |-> 6,
     titleLen |-> 42, titleIsGeneric |-> FALSE, descLen |-> 140, h1Len |-> 18,
     isHttps |-> TRUE, hasLocalSchema |-> TRUE, hasSchema |-> TRUE,
     mentionsService |-> TRUE, mentionsLocation |-> TRUE]

BadPage ==
    [hasViewportMeta |-> FALSE, hasResponsiveCSS |-> FALSE,
     phoneCount |-> 0, hasClickToCall |-> FALSE, formCount |-> 0,
     hasCtaAboveFold |-> FALSE, ctaCount |-> 1, navLinkCount |-> 12,
     hasTestimonials |-> FALSE, hasReviews |-> FALSE, hasLicense |-> FALSE,
     hasAboutPage |-> FALSE, hasRealPhotos |-> FALSE, imageCount |-> 2,
     titleLen |-> 4, titleIsGeneric |-> TRUE, descLen |-> 0, h1Len |-> 0,
     isHttps |-> FALSE, hasLocalSchema |-> FALSE, hasSchema |-> FALSE,
     mentionsService |-> FALSE, mentionsLocation |-> FALSE]

GoodSpeed ==
    [performanceScore |-> 92, lcpMs |-> 2100, clsScore |-> 2, fidMs |-> 120,
     fcpMs |-> 1300, totalBytes |-> 1400000, isResponsive |-> TRUE,
     viewportSet |-> TRUE, fontSizeOk |-> TRUE, tapTargetsOk |-> TRUE]

BadSpeed ==
    [performanceScore |-> 31, lcpMs |-> 6400, clsScore |-> 27, fidMs |-> 640,
     fcpMs |-> 3900, totalBytes |-> 5200000, isResponsive |-> FALSE,
     viewportSet |-> FALSE, fontSizeOk |-> FALSE, tapTargetsOk |-> FALSE]

RECURSIVE FewOf(_, _)
\* the subsets of D of at most k elements
FewOf(D, k) ==
    IF k = 0 THEN {{}}
    ELSE LET fewer == FewOf(D, k - 1)
         IN  fewer \cup {S \cup {f} : S \in fewer, f \in D}

\* the records that take at most k fields from one record and the rest from
\* the other
Mixes(a, b, k) ==
    LET few == FewOf(DOMAIN a, k)
        mix(x, y, S) == [f \in DOMAIN a |-> IF f \in S THEN y[f] ELSE x[f]]
    IN  {mix(a, b, S) : S \in few} \cup {mix(b, a, S) : S \in few}

\* relations fetchAndParse keeps between the signals it extracts
PageWellFormed(pg) ==
    /\ pg.hasLocalSchema => pg.hasSchema
    /\ pg.hasRealPhotos => pg.imageCount > 0
    /\ pg.titleIsGeneric => pg.titleLen = 4

Pages == {pg \in Mixes(GoodPage, BadPage, MaxPageDeviations) : PageWellFormed(pg)}
\* const isResponsive = viewportSet && fontSizeOk
withResponsive(m) ==
    [m EXCEPT !.isResponsive = m.viewportSet /\ m.fontSizeOk]
Speeds ==
    {withResponsive(m) : m \in Mixes(GoodSpeed, BadSpeed, MaxSpeedDeviations)}
        \cup {Null}

\* arrays parsed out of the AI model's reply: an empty one, a well-formed
\* one, one with an impact outside the enumeration
AiReplies ==
    { << >>,
      << Finding("Headline clarity", TRUE, <<"ai">>, "high"),
         Finding("Call-to-action strength", FALSE, <<"ai">>, "high"),
         Finding("Value proposition", FALSE, <<"ai">>, "medium"),
         Finding("Industry-specific messaging", TRUE, <<"ai">>, "medium"),
         Finding("Trust language", FALSE, <<"ai">>, "low") >>,
      << Finding("Headline clarity", FALSE, <<"ai">>, "critical"),
         Finding("Trust language", TRUE, <<"ai">>, "low") >> }

\* what the PageSpeed API, the AI model and the Places API can answer
SpeedReplies ==
    {[kind |-> k] : k \in {"network", "timeout", "status", "not-json",
                           "no-lighthouse", "no-audits"}}
        \cup {[kind |-> "ok", metrics |-> m] : m \in Speeds \ {Null}}
AiReplyCases ==
    {[kind |-> k] : k \in {"nokey", "network", "timeout", "status",
                           "not-json", "no-array"}}
        \cup {[kind |-> "ok", parsed |-> p] : p \in AiReplies}
PlacesLists ==
    { << >>,
      << [name |-> "Acme Roofing", rating |-> 48, isSelf |-> TRUE],
         [name |-> "Gulf Coast Roofing", rating |-> 46, isSelf |-> FALSE],
         [name |-> "New Roofer", rating |-> 0, isSelf |-> FALSE] >> }
PlacesReplies ==
    {[kind |-> k] : k \in {"nokey", "no-location", "network", "timeout",
                           "status", "not-json"}}
        \cup {[kind |-> "ok", places |-> ps] : ps \in PlacesLists}
\* what the two fetches of a scan deliver together: a page that deviates while
\* the PageSpeed answer is one of the plain ones, or metrics that deviate
\* while the page is all good or all bad
ScanInputs ==
    (Pages \X {r \in SpeedReplies :
                  r.kind = "ok" => r.metrics \in {GoodSpeed, BadSpeed}})
        \cup ({GoodPage, BadPage} \X SpeedReplies)

\* the answers of the two services joined before grading: any answer of one
\* while the other has no key configured
JoinReplies ==
    {<<a, [kind |-> "nokey"]>> : a \in AiReplyCases}
        \cup {<<[kind |-> "nokey"], c>> : c \in PlacesReplies}

\* the bodies a POST /api/scan can carry: a complete one, one that is not
\* JSON, one without url, one without businessType
ScanRequests == [kind : {"ok", "not-json", "no-url", "no-type"}]

\* mutant: only the url is required
missingFields_UrlOnly(req) == req.kind = "no-url"

\* if (!url || !businessType)
missingFields(req) == req.kind \in {"no-url", "no-type"}

\* Response.json({ error: 'Missing required fields: ...' }, { status: 400 })
missingFieldsResponse ==
    [status |-> 400, error |-> <<"Missing required fields: ", "url and businessType are required.">>]

\* catch (err) { ... Response.json({ error: `Scan failed: ${message}` }, { status: 500 }) }
scanFailed(message) == [status |-> 500, error |-> <<"Scan failed: ", message>>]

\* the hexadecimal digits the sampled UUIDs are made of
UuidDigits == {"0", "f"}

\* crypto.randomUUID(): 36 characters, xxxxxxxx-xxxx-4xxx-8xxx-xxxxxxxxxxxx
randomUUID(d, e) ==
    [i \in 1..36 |->
        CASE i \in {9, 14, 19, 24} -> "-"
          [] i = 15                -> "4"
          [] i = 20                -> "8"
          [] OTHER                 -> IF i % 2 = 0 THEN d ELSE e]

\* the UUIDs crypto.randomUUID() can return
Uuids == {randomUUID(d, e) : d, e \in UuidDigits}

\* the UUID a scan draws
ScanUuids == {randomUUID("f", "0")}

\* .slice(0, n) of an array or a string
slice(seq, n) == SubSeq(seq, 1, IF Len(seq) < n THEN Len(seq) ELSE n)

\* overallVerdict(grade): one sentence per first letter of the grade
overallVerdict(g) ==
    CASE gradeLetter(g) = "A" -> "Your site is doing its job. Nice work."
      [] gradeLetter(g) = "B" -> "Solid foundation, but you're leaving leads on the table."
      [] gradeLetter(g) = "C" -> "Your site is costing you business. Fixable, but don't wait."
      [] gradeLetter(g) = "D" -> "Your site is letting leads slip through your fingers."
      [] OTHER                -> "Your site is actively working against you."

\* mutant: the report keeps every priority fix
storedReport_AllFixes(id, graded, btype, spend, competitors) ==
    [id                 |-> id,
     businessType       |-> btype,
     adSpend            |-> spend,
     overallScore       |-> graded.overallScore,
     overallGrade       |-> graded.overallGrade,
     verdict            |-> overallVerdict(graded.overallGrade),
     wastedSpend        |-> graded.wastedSpend,
     wastedSpendVerdict |-> IF graded.wastedSpend /= Null
                            THEN [about |-> graded.wastedSpend, of |-> btype]
                            ELSE Null,
     categories         |-> graded.categories,
     priorityFixes      |-> graded.priorityFixes,
     competitors        |-> competitors]

\* const storedReport = { id: reportId, ..., priorityFixes:
\* graded.priorityFixes.slice(0, 5), ..., competitors: competitorData }
\* (url, finalUrl, pageTitle and scannedAt are copied through and left out)
storedReport(id, graded, btype, spend, competitors) ==
    [id                 |-> id,
     businessType       |-> btype,
     adSpend            |-> spend,
     overallScore       |-> graded.overallScore,
     overallGrade       |-> graded.overallGrade,
     verdict            |-> overallVerdict(graded.overallGrade),
     wastedSpend        |-> graded.wastedSpend,
     wastedSpendVerdict |-> IF graded.wastedSpend /= Null
                            THEN [about |-> graded.wastedSpend, of |-> btype]
                            ELSE Null,
     categories         |-> graded.categories,
     priorityFixes      |-> slice(graded.priorityFixes, 5),
     competitors        |-> competitors]

\* JSON.stringify of a report: a text that holds the report's value (the
\* report is made of strings, finite numbers, booleans, null, arrays and
\* objects only)
jsonStringify(value) == <<"json", value>>

\* JSON.parse of such a text
jsonParse(text) == text[2]

\* the characters of the class [a-f0-9-]
IdChars == {"a", "b", "c", "d", "e", "f", "0", "1", "2", "3", "4", "5", "6",
            "7", "8", "9", "-"}

\* mutant: the class has no hyphen, /^[a-f0-9]{8,12}$/
validReportId_NoHyphen(id) ==
    /\ Len(id) >= 8
    /\ Len(id) <= 12
    /\ \A i \in 1..Len(id) : id[i] \in IdChars \ {"-"}

\* !(!id || !/^[a-f0-9-]{8,12}$/.test(id))
validReportId(id) ==
    /\ Len(id) >= 8
    /\ Len(id) <= 12
    /\ \A i \in 1..Len(id) : id[i] \in IdChars

\* mutant: the AI category is put in front of the analyzers' categories
pushAiResult_First(cats, ai) == IF ai /= Null THEN <<ai>> \o cats ELSE cats

\* if (aiResult) categories.push(aiResult)
pushAiResult(cats, ai) == IF ai /= Null THEN Append(cats, ai) ELSE cats

\* how the two fetches of a scan end: both settle, or fetchAndParse rejects
\* (DNS failure, connection reset) whatever PageSpeed answers
FetchOutcomes ==
    {<<"ok", in>> : in \in ScanInputs}
        \cup {<<"network", <<GoodPage, r>>>> :
                 r \in {x \in SpeedReplies :
                           x.kind = "ok" => x.metrics = GoodSpeed}}

InitScan ==
    /\ IdleCalls /\ IdleStore
    /\ IdleScore /\ IdleGrade
    /\ categories = << >>
    /\ report = Null
    /\ adSpend \in {NullString, "$1,000-$2,500"}
    /\ businessType \in {"Roofing"}
    /\ IdleScan
    /\ pc = "request"

\* const body = await request.json(); const { url, businessType, adSpend } = body;
\* if (!url || !businessType) return Response.json({ error }, { status: 400 })
\* a body that is not JSON makes request.json() reject into the catch
ScanRequest ==
    /\ pc = "request"
    /\ \E req \in ScanRequests :
          /\ request' = req
          /\ IF req.kind = "not-json"
             THEN /\ response' = scanFailed("Unexpected token")
                  /\ events' = <<"request.json">>
                  /\ pc' = "failed"
             ELSE IF missingFields(req)
             THEN /\ response' = missingFieldsResponse
                  /\ events' = <<"request.json", "validate">>
                  /\ pc' = "rejected"
             ELSE /\ response' = Null
                  /\ events' = <<"request.json", "validate">>
                  /\ pc' = "fetch"
    /\ UNCHANGED <<findings, categoryScore, score, grade, categories, adSpend,
                   businessType, report, page, pageSpeed, aiResult,
                   competitorData, replies, locals, history, kv, stats>>

\* const [page, pageSpeed] = await Promise.all([fetchAndParse(url), runPageSpeed(...)])
\* an exception of fetchAndParse or of runPageSpeed reaches handleScan's
\* catch (status 500); a call that never settles leaves handleScan waiting
ScanFetch ==
    /\ pc = "fetch"
    /\ \E out \in FetchOutcomes :
          LET pg == out[2][1]
              reply == out[2][2]
              r == runPageSpeed(reply)
          IN  /\ replies' = [page |-> out[1], speed |-> reply, ai |-> Null,
                             places |-> Null, put |-> "none"]
              /\ events' = events \o <<"fetchAndParse", "runPageSpeed">>
              /\ IF out[1] = "network" \/ r = Thrown
                 THEN /\ page' = Null
                      /\ pageSpeed' = Null
                      /\ response' = scanFailed(IF out[1] = "network"
                                                THEN "fetch failed"
                                                ELSE "PageSpeed")
                      /\ pc' = "failed"
                 ELSE IF r = Pending
                 THEN /\ page' = Null
                      /\ pageSpeed' = Null
                      /\ response' = response
                      /\ pc' = "pending"
                 ELSE /\ page' = pg
                      /\ pageSpeed' = r
                      /\ response' = response
                      /\ pc' = "analyze"
    /\ UNCHANGED <<findings, categoryScore, score, grade, categories, adSpend,
                   businessType, report, aiResult, competitorData, locals,
                   history, request, kv, stats>>

\* const aiReviewPromise = runAiReview(...); const competitorsPromise =
\* findCompetitors(...);
\* const categories = [analyzeMobile(...), ..., analyzeAdReadiness(...)]
ScanAnalyze ==
    /\ pc = "analyze"
    /\ categories' = << analyzeMobile(page, pageSpeed),
                        analyzeLeadCapture(page),
                        analyzeTrust(page),
                        analyzeSpeed(pageSpeed),
                        analyzeSeo(page, businessType),
                        analyzeAdReadiness(page, pageSpeed, businessType) >>
    /\ events' = events \o <<"runAiReview", "findCompetitors", "analyzers">>
    /\ pc' = "join"
    /\ UNCHANGED <<findings, categoryScore, score, grade, adSpend,
                   businessType, report, page, pageSpeed, aiResult,
                   competitorData, replies, locals, history,
                   request, response, kv, stats>>

\* const [aiResult, competitorData] = await Promise.all([...]);
\* if (aiResult) categories.push(aiResult)
ScanJoin ==
    /\ pc = "join"
    /\ \E jr \in JoinReplies :
          /\ replies' = [replies EXCEPT !.ai = jr[1], !.places = jr[2]]
          /\ aiResult' = runAiReviewCall(jr[1])
          /\ competitorData' = findCompetitors(jr[2], businessType)
          /\ categories' = pushAiResult(categories, aiResult')
    /\ events' = events \o <<"join">>
    /\ pc' = "grade"
    /\ UNCHANGED <<findings, categoryScore, score, grade, adSpend,
                   businessType, report, page, pageSpeed, locals, history,
                   request, response, kv, stats>>

\* const graded = gradeReport(categories, adSpend ?? null, businessType)
ScanGrade ==
    /\ pc = "grade"
    /\ report' = gradeReport(categories, adSpend, businessType)
    /\ events' = events \o <<"gradeReport">>
    /\ pc' = "graded"
    /\ UNCHANGED <<findings, categoryScore, score, grade, categories, adSpend,
                   businessType, page, pageSpeed, aiResult,
                   competitorData, replies, locals, history,
                   request, response, kv, stats>>

\* const reportId = crypto.randomUUID().slice(0, 12); const storedReport = ...;
\* await env.REPORTS.put('report:' + reportId, JSON.stringify(storedReport), ...)
\* ctx.waitUntil(recordScan(...)); return Response.json(storedReport)
\* a put that rejects reaches the catch: nothing is written, recordScan is
\* not called
ScanStore ==
    /\ pc = "graded"
    /\ \E uuid \in ScanUuids, outcome \in {"ok", "error"} :
          LET reportId == slice(uuid, 12)
              stored == storedReport(reportId, report, businessType, adSpend,
                                     competitorData)
          IN  /\ replies' = [replies EXCEPT !.put = outcome]
              /\ IF outcome = "ok"
                 THEN /\ kv' = mapPut(kv, reportId, jsonStringify(stored))
                      /\ events' = events \o <<"put", "recordScan", "respond">>
                      /\ response' = [status |-> 200, body |-> stored]
                      /\ pc' = "responded"
                 ELSE /\ kv' = kv
                      /\ events' = events \o <<"put">>
                      /\ response' = scanFailed("KV PUT failed")
                      /\ pc' = "failed"
    /\ UNCHANGED <<findings, categoryScore, score, grade, categories, adSpend,
                   businessType, report, page, pageSpeed, aiResult,
                   competitorData, locals, history, request, stats>>

\* recordScan, kept alive by ctx.waitUntil after the response: read the
\* stats, count the scan, write them back
ScanRecord ==
    /\ pc = "responded"
    /\ stats' = scanRecorded(getStats(stats), businessType,
                             report.overallGrade, adSpend)
    /\ pc' = "recorded"
    /\ UNCHANGED <<findings, categoryScore, score, grade, categories, adSpend,
                   businessType, report, page, pageSpeed, aiResult,
                   competitorData, replies, locals, history,
                   request, response, kv, events>>

NextScan ==
    ScanRequest \/ ScanFetch \/ ScanAnalyze \/ ScanJoin \/ ScanGrade
        \/ ScanStore \/ ScanRecord
SpecScan == InitScan /\ [][NextScan]_vars


(***************************************************************************)
(* the report store: scans put their report under a fresh ID, GET          *)
(* /api/report/:id reads it back, the store drops a report when its TTL    *)
(* has run out                                                             *)
(***************************************************************************)
\* number of scans that store a report
MaxStoredScans == 2

\* the graded reports the scans come to
StoredSamples ==
    {gradeReport(ScenarioCategories, NullString, "Roofing"),
     gradeReport(<<[name |-> "Page Speed", score |-> 100, findings |-> << >>]>>,
                 "$500-$1,000", "Roofing")}

\* the IDs asked for: those a scan can generate, a well-formed one no scan
\* generates, and malformed ones (empty, too short, too long, an upper-case
\* letter, a letter outside a-f)
RequestedIds ==
    {slice(u, 12) : u \in Uuids}
        \cup {<<"d", "e", "a", "d", "b", "e", "e", "f">>,
              << >>,
              <<"a", "b", "c", "d", "e", "f", "0">>,
              <<"0", "0", "0", "0", "0", "0", "0", "0", "-", "0", "0", "0", "0">>,
              <<"A", "0", "a", "0", "a", "0", "a", "0", "-", "a", "0", "a">>,
              <<"g", "0", "a", "0", "a", "0", "a", "0", "-", "a", "0", "a">>}

InitStore ==
    /\ IdleScore /\ IdleGrade /\ IdleReport /\ IdleScan /\ IdleStore
    /\ report = Null
    /\ locals = Null
    /\ history = << >>
    /\ pc = "idle"

\* handleScan from the graded report on: draw the ID, build the report, put
\* it under 'report:' + reportId, return it
StoreScan ==
    /\ Len(history) < MaxStoredScans
    /\ \E uuid \in Uuids, graded \in StoredSamples :
          LET reportId == slice(uuid, 12)
              stored == storedReport(reportId, graded, "Roofing",
                                     NullString, Null)
          IN  /\ kv' = mapPut(kv, reportId, jsonStringify(stored))
              /\ response' = [status |-> 200, body |-> stored]
              /\ history' = Append(history, [id |-> reportId, body |-> stored,
                                             live |-> TRUE])
              /\ request' = Null
              /\ events' = <<"put">>
    /\ pc' = "scan"
    /\ UNCHANGED <<findings, categoryScore, score, grade, categories, adSpend,
                   businessType, report, page, pageSpeed, aiResult,
                   competitorData, replies, locals, stats>>

\* handleReport(id, env)
HandleReport ==
    /\ \E id \in RequestedIds :
          /\ request' = [id |-> id]
          /\ IF ~validReportId(id)
             THEN /\ response' = [status |-> 400, error |-> "Invalid report ID."]
                  /\ events' = << >>
             ELSE IF id \notin DOMAIN kv
             THEN /\ response' = [status |-> 404, error |-> "Report not found."]
                  /\ events' = <<"get">>
             ELSE /\ response' = [status |-> 200, body |-> jsonParse(kv[id])]
                  /\ events' = <<"get">>
    /\ pc' = "report"
    /\ UNCHANGED <<findings, categoryScore, score, grade, categories, adSpend,
                   businessType, report, page, pageSpeed, aiResult,
                   competitorData, replies, locals, history, kv, stats>>

\* { expirationTtl: 30 * 24 * 60 * 60 }: the store drops the key
StoreExpire ==
    /\ \E id \in DOMAIN kv :
          /\ kv' = [k \in DOMAIN kv \ {id} |-> kv[k]]
          /\ history' = [i \in 1..Len(history) |->
                            IF history[i].id = id
                            THEN [history[i] EXCEPT !.live = FALSE]
                            ELSE history[i]]
    /\ request' = Null
    /\ response' = Null
    /\ events' = << >>
    /\ pc' = "expired"
    /\ UNCHANGED <<findings, categoryScore, score, grade, categories, adSpend,
                   businessType, report, page, pageSpeed, aiResult,
                   competitorData, replies, locals, stats>>

NextStore == StoreScan \/ HandleReport \/ StoreExpire
SpecStore == InitStore /\ [][NextStore]_vars

(***************************************************************************)
(* recordScan and recordLead running concurrently: each call reads the     *)
(* stats record, counts, and writes the record back; calls of different    *)
(* requests interleave at their awaits                                     *)
(***************************************************************************)
\* number of analytics calls under way together
MaxStatsCalls == 3

StatsCalls == 1..MaxStatsCalls

\* what the calls are made with
StatsArgs ==
    {[op |-> "recordScan", businessType |-> "Roofing", grade |-> "A+",
      adSpend |-> NullString],
     [op |-> "recordScan", businessType |-> "HVAC", grade |-> "B-",
      adSpend |-> "$1,000-$2,500"],
     [op |-> "recordLead", businessType |-> "Roofing", grade |-> "A+",
      adSpend |-> NullString]}

\* the record a call writes back, from the record it read
recorded(call) ==
    IF call.op = "recordScan"
    THEN scanRecorded(call.stats, call.businessType, call.grade, call.adSpend)
    ELSE leadRecorded(call.stats, call.businessType, call.grade)

InitStats ==
    /\ IdleScore /\ IdleGrade /\ IdleReport /\ IdleScan /\ IdleStore
    /\ report = Null
    /\ history = << >>
    /\ locals = [c \in StatsCalls |-> [pc |-> "idle"]]
    /\ pc = "stats"

\* const stats = await getStats(env)
StatsRead(c) ==
    /\ locals[c].pc = "idle"
    /\ \E args \in StatsArgs :
          locals' = [locals EXCEPT ![c] =
                        [pc |-> "read", op |-> args.op,
                         businessType |-> args.businessType,
                         grade |-> args.grade, adSpend |-> args.adSpend,
                         stats |-> getStats(stats)]]
    /\ UNCHANGED <<pc, findings, categoryScore, score, grade, categories,
                   adSpend, businessType, report, page, pageSpeed, aiResult,
                   competitorData, replies, history,
                   request, response, kv, stats, events>>

\* stats.scans.total++; inc(...); await env.REPORTS.put(STATS_KEY, JSON.stringify(stats))
StatsWrite(c) ==
    /\ locals[c].pc = "read"
    /\ stats' = recorded(locals[c])
    /\ locals' = [locals EXCEPT ![c].pc = "done"]
    /\ UNCHANGED <<pc, findings, categoryScore, score, grade, categories,
                   adSpend, businessType, report, page, pageSpeed, aiResult,
                   competitorData, replies, history,
                   request, response, kv, events>>

NextStats == \E c \in StatsCalls : StatsRead(c) \/ StatsWrite(c)
SpecStats == InitStats /\ [][NextStats]_vars

(***************************************************************************)
(* Vocabulary of the properties                                            *)
(***************************************************************************)
\* the labels and impacts of a category's findings, in order
Shape(cat) ==
    [i \in 1..Len(cat.findings) |->
        <<cat.findings[i].label, cat.findings[i].impact>>]

RECURSIVE MapSum(_)
\* the sum of the counters of a map
MapSum(map) ==
    IF DOMAIN map = {} THEN 0
    ELSE LET k == CHOOSE x \in DOMAIN map : TRUE
         IN  map[k] + MapSum([x \in DOMAIN map \ {k} |-> map[x]])

\* an ID of 8 to 12 characters, each a lower-case hexadecimal digit or a hyphen
WellFormedId(id) ==
    /\ Len(id) \in 8..12
    /\ \A i \in 1..Len(id) :
          id[i] \in {"0", "1", "2", "3", "4", "5", "6", "7", "8", "9",
                     "a", "b", "c", "d", "e", "f", "-"}

\* positions of step e in the log of a scan
StepsOf(e) == {i \in 1..Len(events) : events[i] = e}

\* every e of the log comes before every f of the log
Precedes(e, f) == \A i \in StepsOf(e), j \in StepsOf(f) : i < j

\* r is the nearest integer to n/d (d > 0), the upper one at an exact half
IsRounded(r, n, d) == 2 * d * r <= 2 * n + d /\ 2 * n + d < 2 * d * (r + 1)

RECURSIVE SumTo(_, _)
\* f[1] + ... + f[n]
SumTo(f, n) == IF n = 0 THEN 0 ELSE f[n] + SumTo(f, n - 1)

\* the documented weight of a category, in hundredths; 0 for any other name
DocumentedWeight(name) ==
    CASE name = "Mobile Experience"    -> 25
      [] name = "Lead Capture"         -> 25
      [] name = "Trust & Credibility"  -> 15
      [] name = "Page Speed"           -> 15
      [] name = "SEO Basics"           -> 10
      [] name = "Ad Landing Readiness" -> 10
      [] OTHER                         -> 0

\* the letter grade by its score interval
GradeByInterval(s) ==
    CASE s >= 97            -> "A+"
      [] s >= 93 /\ s < 97  -> "A"
      [] s >= 90 /\ s < 93  -> "A-"
      [] s >= 87 /\ s < 90  -> "B+"
      [] s >= 83 /\ s < 87  -> "B"
      [] s >= 80 /\ s < 83  -> "B-"
      [] s >= 77 /\ s < 80  -> "C+"
      [] s >= 73 /\ s < 77  -> "C"
      [] s >= 70 /\ s < 73  -> "C-"
      [] s >= 67 /\ s < 70  -> "D+"
      [] s >= 63 /\ s < 67  -> "D"
      [] s >= 60 /\ s < 63  -> "D-"
      [] s < 60             -> "F"

\* A+ > A > A- > ... > D- > F
GradeRank(g) ==
    CASE g = "A+" -> 12 [] g = "A" -> 11 [] g = "A-" -> 10
      [] g = "B+" -> 9  [] g = "B" -> 8  [] g = "B-" -> 7
      [] g = "C+" -> 6  [] g = "C" -> 5  [] g = "C-" -> 4
      [] g = "D+" -> 3  [] g = "D" -> 2  [] g = "D-" -> 1
      [] g = "F"  -> 0

\* bijections of 1..n
Permutations(n) ==
    {p \in [1..n -> 1..n] : \A i, j \in 1..n : p[i] = p[j] => i = j}

\* positions <<c, j>> of the findings of a category list, and their input order
FindingPositions(cats) ==
    UNION {{<<c, j>> : j \in 1..Len(cats[c].findings)} : c \in 1..Len(cats)}
Before(q1, q2) == q1[1] < q2[1] \/ (q1[1] = q2[1] /\ q1[2] < q2[2])
FindingAt(cats, q) == cats[q[1]].findings[q[2]]

\* a fix is the finding it was made of
FixOf(fix, f) ==
    fix.label = f.label /\ fix.detail = f.detail /\ fix.impact = f.impact

C2_SixWeightsSumToOne ==
    pc = "graded" =>
        LET w == [i \in 1..6 |-> categoryWeight(categories[i].name)]
            sw == [i \in 1..6 |-> categories[i].score * DocumentedWeight(
                      <<"Mobile Experience", "Lead Capture",
                        "Trust & Credibility", "Page Speed", "SEO Basics",
                        "Ad Landing Readiness">>[i])]
        IN  /\ \A i \in 1..6 : categories[i].name \in DOMAIN CATEGORY_WEIGHTS
            /\ SumTo(w, 6) = 100
            /\ IsRounded(report.overallScore, SumTo(sw, 6), 100)


(***************************************************************************)
(* C3  calculateCategoryScore returns round(earned/total*100), a finding   *)
(* weighing 30 (high), 20 (medium) or 10 (low), total over all findings    *)
(* and earned over the passing ones; the order of the findings does not    *)
(* change the result.                                                      *)
(***************************************************************************)
C3_ScoreFormula ==
    pc = "done" =>
        LET n == Len(findings)
            wt == [i \in 1..n |->
                     CASE findings[i].impact = "high"   -> 30
                       [] findings[i].impact = "medium" -> 20
                       [] findings[i].impact = "low"    -> 10]
            ew == [i \in 1..n |-> IF findings[i].pass THEN wt[i] ELSE 0]
            total == SumTo(wt, n)
            earned == SumTo(ew, n)
        IN  /\ total > 0 => IsRounded(categoryScore, 100 * earned, total)
            /\ \A p \in Permutations(n) :
                  calculateCategoryScore([i \in 1..n |-> findings[p[i]]])
                      = categoryScore

\* a mixed sequence has been scored: two impacts, a pass and a fail
C3_Witness ==
    /\ pc = "done"
    /\ Len(findings) >= 2
    /\ findings[1].impact /= findings[2].impact
    /\ findings[1].pass /\ ~findings[2].pass
    /\ categoryScore \notin {0, 100}

(***************************************************************************)
(* C4  calculateCategoryScore returns an integer in [0,100] and never      *)
(* divides by zero: empty gives 0, all failing gives 0, non-empty all      *)
(* passing gives 100.                                                      *)
(***************************************************************************)
C4_ScoreRange ==
    pc = "done" =>
        /\ categoryScore \in 0..100
        /\ findings = << >> => categoryScore = 0
        /\ (\A i \in 1..Len(findings) : ~findings[i].pass) => categoryScore = 0
        /\ (findings /= << >> /\ \A i \in 1..Len(findings) : findings[i].pass)
               => categoryScore = 100

\* an all-failing sequence of several findings has been scored 0
C4_Witness ==
    /\ pc = "done"
    /\ Len(findings) >= 2
    /\ \A i \in 1..Len(findings) : ~findings[i].pass
    /\ categoryScore = 0

(***************************************************************************)
(* C5  scoreToGrade is total: the grade of the first threshold, from the   *)
(* highest, that the score meets or exceeds; F below 60, negative scores   *)
(* included; A+ from 97 up, scores above 100 included.                    *)
(***************************************************************************)
C5_GradeTable ==
    pc = "done" =>
        /\ grade = GradeByInterval(score)
        /\ score < 60 => grade = "F"
        /\ score >= 97 => grade = "A+"

\* a score above 100 has been graded
C5_Witness == pc = "done" /\ score > 100 /\ grade = "A+"

(***************************************************************************)
(* C6  The letter grade is monotonic: a >= b implies scoreToGrade(a) is    *)
(* never a worse grade than scoreToGrade(b).                               *)
(***************************************************************************)
C6_GradeMonotonic ==
    pc = "done" =>
        \A b \in GradeInputs :
            score >= b => GradeRank(grade) >= GradeRank(scoreToGrade(b))

\* a graded score with a lower score of a strictly worse grade
C6_Witness ==
    /\ pc = "done"
    /\ \E b \in GradeInputs :
          b < score /\ GradeRank(scoreToGrade(b)) < GradeRank(grade)

(***************************************************************************)
(* C7  priorityFixes is ordered by impact rank (high, then medium, then    *)
(* low) and the order is stable: of two failing findings with the same     *)
(* impact, the earlier in input order (category, then finding) comes       *)
(* earlier in the output.                                                  *)
(***************************************************************************)
C7_FixOrder ==
    pc = "done" =>
        LET out == report.priorityFixes
            rank(i) == CASE i = "high" -> 0 [] i = "medium" -> 1 [] i = "low" -> 2
            failing == {q \in FindingPositions(categories) :
                           ~FindingAt(categories, q).pass}
        IN  /\ \A i, j \in 1..Len(out) :
                  i < j => rank(out[i].impact) <= rank(out[j].impact)
            /\ \A q1, q2 \in failing :
                  (/\ Before(q1, q2)
                   /\ FindingAt(categories, q1).impact
                          = FindingAt(categories, q2).impact)
                  => \E i, j \in 1..Len(out) :
                        /\ i < j
                        /\ FixOf(out[i], FindingAt(categories, q1))
                        /\ FixOf(out[j], FindingAt(categories, q2))

\* the sort had to move a fix forward, and kept two equal-impact fixes of
\* different categories in input order
C7_Witness ==
    /\ pc = "done"
    /\ Len(categories) >= 2
    /\ Len(categories[1].findings) >= 2
    /\ Len(categories[2].findings) >= 1
    /\ ~categories[1].findings[1].pass
    /\ categories[1].findings[1].impact = "low"
    /\ ~categories[1].findings[2].pass
    /\ categories[1].findings[2].impact = "high"
    /\ ~categories[2].findings[1].pass
    /\ categories[2].findings[1].impact = "high"
    /\ report.priorityFixes[1].label = categories[1].findings[2].label
    /\ report.priorityFixes[2].label = categories[2].findings[1].label

(***************************************************************************)
(* C8  priorityFixes contains exactly the failing findings of all input    *)
(* categories: each once, with its label, detail and impact, no passing    *)
(* finding, and effort the fixed function of impact (high -> quick,        *)
(* medium -> medium, low -> involved).                                     *)
(***************************************************************************)
C8_FixContents ==
    pc = "done" =>
        LET out == report.priorityFixes
            positions == FindingPositions(categories)
        IN  /\ \A k \in 1..Len(out) :
                  out[k].effort = CASE out[k].impact = "high"   -> "quick"
                                    [] out[k].impact = "medium" -> "medium"
                                    [] out[k].impact = "low"    -> "involved"
            /\ \A k \in 1..Len(out) :
                  \E q \in positions : FixOf(out[k], FindingAt(categories, q))
            /\ \A q \in positions :
                  LET f == FindingAt(categories, q)
                  IN  Cardinality({k \in 1..Len(out) : FixOf(out[k], f)})
                        = Cardinality({r \in positions :
                              /\ FindingAt(categories, r).label = f.label
                              /\ FindingAt(categories, r).detail = f.detail
                              /\ FindingAt(categories, r).impact = f.impact
                              /\ ~FindingAt(categories, r).pass})

\* a report over passing and failing findings, some fixes and not all findings
C8_Witness ==
    /\ pc = "done"
    /\ Len(categories) >= 2
    /\ Len(categories[1].findings) >= 2
    /\ Len(categories[2].findings) >= 1
    /\ categories[1].findings[1].pass
    /\ ~categories[1].findings[2].pass
    /\ categories[2].findings[1].pass
    /\ Len(report.priorityFixes) >= 1

C10_UnrecognizedBracketIsNull ==
    (/\ pc = "done"
     /\ adSpend /= NullString
     /\ adSpend /= "none"
     /\ adSpend \notin DOMAIN SPEND_MIDPOINTS)
    => report.wastedSpend = Null

(***************************************************************************)
(* C11  With the bracket "none" gradeReport produces wastedSpend = null    *)
(* for every overall score and business type, and overallScore,            *)
(* overallGrade, categories and priorityFixes are those of any other       *)
(* bracket value.                                                          *)
(***************************************************************************)
C11_NoneIsNull ==
    (pc = "done" /\ adSpend = "none") =>
        /\ report.wastedSpend = Null
        /\ \A a \in AdSpends :
              LET other == gradeReport(categories, a, businessType)
              IN  /\ other.overallScore = report.overallScore
                  /\ other.overallGrade = report.overallGrade
                  /\ other.categories = report.categories
                  /\ other.priorityFixes = report.priorityFixes

\* "none" graded for a trade with an industry average, at a middling score
C11_Witness ==
    /\ pc = "done"
    /\ adSpend = "none"
    /\ businessType = "HVAC"
    /\ report.overallScore \in 1..99
    /\ report.wastedSpend = Null

C13_NoBias ==
    (/\ pc = "done"
     /\ categories /= << >>
     /\ \A i \in 1..Len(categories) : DocumentedWeight(categories[i].name) > 0
     /\ \A i, j \in 1..Len(categories) :
           /\ categories[i].score = categories[j].score
           /\ i /= j => categories[i].name /= categories[j].name)
    => report.overallScore = categories[1].score

\* three of the six weighted categories, Lead Capture absent, all at 70
C13_Witness ==
    /\ pc = "done"
    /\ Len(categories) = 3
    /\ \A i \in 1..3 :
          /\ DocumentedWeight(categories[i].name) > 0
          /\ categories[i].name /= "Lead Capture"
          /\ categories[i].score = 70
    /\ categories[1].name /= categories[2].name
    /\ report.overallScore = 70

(***************************************************************************)
(* C14  Grading is deterministic and idempotent: two calls of gradeReport  *)
(* with equal inputs return equal reports in every field, with no          *)
(* dependence on earlier calls or on state outside the arguments.          *)
(***************************************************************************)
C14_Deterministic ==
    \A i, j \in 1..Len(history) :
        (/\ history[i].categories = history[j].categories
         /\ history[i].adSpend = history[j].adSpend
         /\ history[i].businessType = history[j].businessType)
        => history[i].report = history[j].report

\* a call with findings to fix, then two calls on the scenario
C14_Witness ==
    /\ Len(history) = 3
    /\ history[1].categories = CallSample
    /\ history[2].categories = ScenarioCategories
    /\ history[2].adSpend = "$1,000-$2,500"
    /\ history[3].categories = history[2].categories
    /\ history[3].adSpend = history[2].adSpend
    /\ history[3].businessType = history[2].businessType
    /\ history[3].report.overallScore = 68

(***************************************************************************)
(* C15  Each of the three external calls of a scan (runPageSpeed,          *)
(* runAiReview, findCompetitors) yields null, and never an exception or an *)
(* unbounded wait, on timeout, on network failure and on a malformed       *)
(* response, so that handleScan still grades and returns a report.         *)
(***************************************************************************)
C15_ExternalCallsDegrade ==
    LET failures == {"timeout", "network", "status", "not-json",
                     "no-lighthouse", "no-audits", "no-array"}
    IN  /\ (replies /= Null /\ replies.page = "ok" /\ replies.put = "none")
               => pc \notin {"failed", "pending"}
        /\ (pc \in {"analyze", "join", "grade", "graded"}
               /\ replies.speed.kind \in failures) => pageSpeed = Null
        /\ (pc \in {"grade", "graded"} /\ replies.ai.kind \in failures)
               => aiResult = Null
        /\ (pc \in {"grade", "graded"} /\ replies.places.kind \in failures)
               => competitorData = Null

\* total severity weight of a findings sequence: 30 high, 20 medium, 10 low
TotalWeight(fs) ==
    SumTo([i \in 1..Len(fs) |->
              CASE fs[i].impact = "high"   -> 30
                [] fs[i].impact = "medium" -> 20
                [] fs[i].impact = "low"    -> 10], Len(fs))

(***************************************************************************)
(* C16  When the performance metrics are absent (null), every analyzer     *)
(* that takes them (analyzeMobile, analyzeSpeed, analyzeAdReadiness)       *)
(* returns, for every page, a category with at least one finding and a     *)
(* total severity weight greater than 0.                                   *)
(***************************************************************************)
C16_ScoreableWithoutMetrics ==
    (pc = "join" /\ pageSpeed = Null) =>
        \A i \in {1, 4, 6} :
            /\ Len(categories[i].findings) >= 1
            /\ TotalWeight(categories[i].findings) > 0
            /\ categories[i].score \in 0..100

\* the analyzers have run on a deviating page after the metrics call failed
C16_Witness ==
    /\ pc = "join"
    /\ pageSpeed = Null
    /\ replies.speed.kind = "network"
    /\ page \notin {GoodPage, BadPage}
    /\ categories[1].name = "Mobile Experience"
    /\ Len(categories[1].findings) = 4
    /\ Len(categories[6].findings) = 3

(***************************************************************************)
(* C17  When no performance metrics are available, analyzeSpeed returns    *)
(* the category "Page Speed" with exactly one finding, which is failing    *)
(* and has impact high, and with score 0.                                  *)
(***************************************************************************)
C17_SpeedUnavailable ==
    (pc = "join" /\ pageSpeed = Null) =>
        /\ categories[4].name = "Page Speed"
        /\ Len(categories[4].findings) = 1
        /\ ~categories[4].findings[1].pass
        /\ categories[4].findings[1].impact = "high"
        /\ categories[4].score = 0

\* the PageSpeed API answered with an error status and the page is all good
C17_Witness ==
    /\ pc = "join"
    /\ pageSpeed = Null
    /\ replies.speed.kind = "status"
    /\ page = GoodPage
    /\ categories[4].findings[1].label = "Speed data unavailable"

(***************************************************************************)
(* C18  When performance metrics are present, analyzeMobile cross-checks   *)
(* each of its mobile signals (responsive layout, viewport, readable text, *)
(* tap targets) against the page-derived fallback and marks the finding    *)
(* as passing whenever either the metric flag or the page-derived fallback *)
(* indicates pass.                                                         *)
(***************************************************************************)
C18_CrossCheckEachSignal ==
    (pc = "join" /\ pageSpeed /= Null) =>
        LET m == categories[1].findings
        IN  /\ m[2].label = "Mobile-responsive layout"
            /\ m[2].pass = (pageSpeed.isResponsive
                              \/ (page.hasViewportMeta /\ page.hasResponsiveCSS))
            /\ m[3].label = "Viewport configured"
            /\ m[3].pass = (pageSpeed.viewportSet \/ page.hasViewportMeta)
            /\ m[4].label = "Readable text on mobile"
            /\ m[4].pass = (pageSpeed.fontSizeOk \/ page.hasResponsiveCSS)
            /\ m[5].label = "Tap-friendly buttons"
            /\ m[5].pass = (pageSpeed.tapTargetsOk \/ page.hasResponsiveCSS)

(***************************************************************************)
(* C19  Whenever runAiReview returns a non-null result, that result has    *)
(* exactly 5 findings, each with an impact in {high, medium, low}; any     *)
(* other model response yields null.                                       *)
(***************************************************************************)
C19_AiContract ==
    (pc \in {"grade", "graded"} /\ aiResult /= Null) =>
        /\ Len(aiResult.findings) = 5
        /\ \A i \in 1..Len(aiResult.findings) :
              aiResult.findings[i].impact \in {"high", "medium", "low"}

(***************************************************************************)
(* C20  Every CategoryResult that reaches gradeReport in a scan (from the  *)
(* six analyzers and from runAiReview, metrics present or absent) has      *)
(* score equal to calculateCategoryScore applied to its own findings.      *)
(***************************************************************************)
C20_ScoreIsDerived ==
    pc \in {"grade", "graded"} =>
        \A i \in 1..Len(categories) :
            LET fs == categories[i].findings
                earned == SumTo([k \in 1..Len(fs) |->
                                    IF fs[k].pass
                                    THEN TotalWeight(<<fs[k]>>) ELSE 0], Len(fs))
            IN  /\ TotalWeight(fs) > 0
                /\ IsRounded(categories[i].score, 100 * earned, TotalWeight(fs))

\* seven categories reach gradeReport, the metrics absent and the AI category
\* built from a reply that lost a finding to the filter
C20_Witness ==
    /\ pc = "grade"
    /\ pageSpeed = Null
    /\ Len(categories) = 7
    /\ categories[7].name = "Content Quality"
    /\ Len(categories[7].findings) = 1
    /\ categories[7].score = 100
    /\ categories[4].score = 0

C22_InputPreserved ==
    [][(pc = "call" /\ pc' = "done") =>
          /\ categories' = categories
          /\ Len(report'.categories) = Len(categories)
          /\ \A i \in 1..Len(categories) :
                LET in == categories[i]
                    out == report'.categories[i]
                IN  /\ out.name = in.name
                    /\ out.score = in.score
                    /\ out.findings = in.findings
                    /\ out.grade = scoreToGrade(in.score)
                    /\ out.gradeColor = gradeColor(out.grade)
                    /\ DOMAIN out = {"name", "score", "grade", "gradeColor",
                                     "findings"}]_vars

\* a graded input whose failing findings the priority-fix sort reorders
C22_Witness ==
    /\ pc = "done"
    /\ Len(categories) >= 2
    /\ Len(categories[1].findings) >= 2
    /\ ~categories[1].findings[1].pass
    /\ categories[1].findings[1].impact = "low"
    /\ ~categories[1].findings[2].pass
    /\ categories[1].findings[2].impact = "high"
    /\ report.priorityFixes[1].label = categories[1].findings[2].label
    /\ report.categories[1].findings = categories[1].findings
    /\ report.categories[2].name = categories[2].name

(***************************************************************************)
(* C23  The AI review and the competitor lookup are started before the six *)
(* analyzers run and are both joined before gradeReport is called;         *)
(* gradeReport is called exactly once per scan, on the six analyzer        *)
(* results in the fixed order Mobile, Lead Capture, Trust, Page Speed,     *)
(* SEO, Ad Readiness, followed by the AI category as last element exactly  *)
(* when the AI result is non-null; the report is stored before the         *)
(* response is returned.                                                   *)
(***************************************************************************)
C23_ScanOrder ==
    LET six == << analyzeMobile(page, pageSpeed),
                  analyzeLeadCapture(page),
                  analyzeTrust(page),
                  analyzeSpeed(pageSpeed),
                  analyzeSeo(page, businessType),
                  analyzeAdReadiness(page, pageSpeed, businessType) >>
    IN  /\ StepsOf("analyzers") /= {} =>
              /\ StepsOf("runAiReview") /= {}
              /\ StepsOf("findCompetitors") /= {}
              /\ Precedes("runAiReview", "analyzers")
              /\ Precedes("findCompetitors", "analyzers")
        /\ StepsOf("gradeReport") /= {} =>
              /\ StepsOf("join") /= {}
              /\ Precedes("join", "gradeReport")
        /\ Cardinality(StepsOf("gradeReport")) <= 1
        /\ pc \in {"graded", "responded", "recorded"} =>
              /\ Cardinality(StepsOf("gradeReport")) = 1
              /\ Len(report.categories) = Len(categories)
              /\ \A i \in 1..Len(categories) :
                    /\ report.categories[i].name = categories[i].name
                    /\ report.categories[i].score = categories[i].score
                    /\ report.categories[i].findings = categories[i].findings
        /\ pc = "graded" =>
              categories = IF aiResult /= Null
                           THEN six \o <<aiResult>>
                           ELSE six
        /\ StepsOf("respond") /= {} =>
              /\ StepsOf("put") /= {}
              /\ Precedes("put", "respond")
              /\ response.body.id \in DOMAIN kv
              /\ jsonParse(kv[response.body.id]) = response.body

\* a scan with an AI category has been answered
C23_Witness ==
    /\ pc = "responded"
    /\ aiResult /= Null
    /\ Len(categories) = 7
    /\ categories[7] = aiResult
    /\ Len(report.categories) = 7

(***************************************************************************)
(* C24  Truncation happens only in the orchestrator: gradeReport returns   *)
(* every failing finding, however many there are, and the report that      *)
(* handleScan stores and returns has as priorityFixes exactly the first    *)
(* min(5, n) elements of gradeReport's ranked list, in the same order.     *)
(***************************************************************************)
C24_TruncatedByScan ==
    pc = "responded" =>
        LET ranked == report.priorityFixes
            n == Len(ranked)
            kept == response.body.priorityFixes
            failing == {q \in FindingPositions(categories) :
                           ~FindingAt(categories, q).pass}
        IN  /\ n = Cardinality(failing)
            /\ Len(kept) = IF n < 5 THEN n ELSE 5
            /\ \A i \in 1..Len(kept) : kept[i] = ranked[i]
            /\ jsonParse(kv[response.body.id]).priorityFixes = kept

\* a scan with more than five failing findings has been answered
C24_Witness ==
    /\ pc = "responded"
    /\ Len(report.priorityFixes) > 5
    /\ Len(response.body.priorityFixes) = 5
    /\ response.body.priorityFixes[5] = report.priorityFixes[5]

(***************************************************************************)
(* C25  For each analyzer the impact of a check is fixed per check: across *)
(* all inputs a finding with a given label always has the same impact, and *)
(* the sequence of labels depends only on whether performance metrics are  *)
(* present; only pass and detail vary.  Stated against one reference input *)
(* per case: whatever the page and the metrics, each analyzer's labels and *)
(* impacts are those it gives for the all-good page, with the all-good     *)
(* metrics when metrics are present and without metrics when they are not. *)
(***************************************************************************)
C25_ImpactPerCheck ==
    pc = "join" =>
        LET refSpeed == IF pageSpeed = Null THEN Null ELSE GoodSpeed
            reference == << analyzeMobile(GoodPage, refSpeed),
                            analyzeLeadCapture(GoodPage),
                            analyzeTrust(GoodPage),
                            analyzeSpeed(refSpeed),
                            analyzeSeo(GoodPage, businessType),
                            analyzeAdReadiness(GoodPage, refSpeed, businessType) >>
        IN  /\ Len(categories) = 6
            /\ \A i \in 1..6 : Shape(categories[i]) = Shape(reference[i])
            /\ \A i \in 1..6 : \A j, k \in 1..Len(categories[i].findings) :
                  categories[i].findings[j].label = categories[i].findings[k].label
                      => categories[i].findings[j].impact
                            = categories[i].findings[k].impact

\* the analyzers have run on the all-bad page with metrics that are neither
\* all good nor all bad
C25_Witness ==
    /\ pc = "join"
    /\ page = BadPage
    /\ pageSpeed /= Null
    /\ pageSpeed \notin {GoodSpeed, BadSpeed}
    /\ \E j \in 1..Len(categories[1].findings) : ~categories[1].findings[j].pass
    /\ \E j \in 1..Len(categories[1].findings) : categories[1].findings[j].pass

(***************************************************************************)
(* C26  No analytics increment is lost: for every interleaving of          *)
(* concurrently running recordScan (and recordLead) calls on the shared    *)
(* stats key, once all calls have completed stats.scans.total equals the   *)
(* number of recordScan calls, and in every stored stats value scans.total *)
(* equals the sum of byGrade, of byType and of byAdSpend.                  *)
(***************************************************************************)
C26_NoLostIncrement ==
    /\ (\A c \in StatsCalls : locals[c].pc = "done") =>
          getStats(stats).scans.total
              = Cardinality({c \in StatsCalls : locals[c].op = "recordScan"})
    /\ stats /= Null =>
          /\ stats.scans.total = MapSum(stats.scans.byGrade)
          /\ stats.scans.total = MapSum(stats.scans.byType)
          /\ stats.scans.total = MapSum(stats.scans.byAdSpend)

(***************************************************************************)
(* C27  Appending to gradeReport's input a category whose name is not in   *)
(* the weight table (such as "Content Quality") leaves overallScore,       *)
(* overallGrade and wastedSpend as they are without it, whatever its       *)
(* score, while its failing findings are still ranked into priorityFixes   *)
(* together with those of the weighted categories.                         *)
(***************************************************************************)
C27_UnweightedCategory ==
    (/\ pc = "done"
     /\ Len(categories) >= 1
     /\ categories[Len(categories)].name \notin DOMAIN CATEGORY_WEIGHTS) =>
        LET n == Len(categories)
            extra == categories[n]
            without == gradeReport(SubSeq(categories, 1, n - 1), adSpend,
                                   businessType)
            out == report.priorityFixes
            rank(i) == CASE i = "high" -> 0 [] i = "medium" -> 1 [] i = "low" -> 2
            failing == {j \in 1..Len(extra.findings) : ~extra.findings[j].pass}
        IN  /\ report.overallScore = without.overallScore
            /\ report.overallGrade = without.overallGrade
            /\ report.wastedSpend = without.wastedSpend
            /\ Len(out) = Len(without.priorityFixes) + Cardinality(failing)
            /\ \A j \in failing :
                  \E k \in 1..Len(out) : FixOf(out[k], extra.findings[j])
            /\ \A i, j \in 1..Len(out) :
                  i < j => rank(out[i].impact) <= rank(out[j].impact)

\* an AI category with score 37 behind weighted categories that score 50 and
\* more; its high-impact fix is ranked behind theirs, its low-impact fix last
C27_Witness ==
    /\ pc = "done"
    /\ Len(categories) >= 2
    /\ categories[Len(categories)].name = "Content Quality"
    /\ categories[Len(categories)].score = 37
    /\ categories[1].name \in DOMAIN CATEGORY_WEIGHTS
    /\ categories[1].score = 50
    /\ report.overallScore > 50
    /\ report.priorityFixes[1].label /= "Compelling offer"
    /\ \E k \in 2..Len(report.priorityFixes) :
          report.priorityFixes[k].label = "Compelling offer"
    /\ report.priorityFixes[Len(report.priorityFixes)].label = "Professional tone"

(***************************************************************************)
(* C28  If every input category score is an integer in [0, 100], then      *)
(* overallScore is an integer in [0, 100], and when at least one category  *)
(* has a non-zero weight it lies between the least and the greatest score  *)
(* of the categories with non-zero weight.                                 *)
(***************************************************************************)
C28_ScoreRange ==
    (/\ pc = "done"
     /\ \A i \in 1..Len(categories) : categories[i].score \in 0..100) =>
        LET weighted == {i \in 1..Len(categories) :
                            DocumentedWeight(categories[i].name) /= 0}
        IN  /\ report.overallScore \in 0..100
            /\ weighted /= {} =>
                  /\ \E i \in weighted :
                        categories[i].score <= report.overallScore
                  /\ \E i \in weighted :
                        report.overallScore <= categories[i].score

\* two weighted categories with different scores and an unweighted one with
\* a score below both
C28_Witness ==
    /\ pc = "done"
    /\ Len(categories) = 3
    /\ DocumentedWeight(categories[1].name) /= 0
    /\ DocumentedWeight(categories[2].name) /= 0
    /\ DocumentedWeight(categories[3].name) = 0
    /\ categories[1].score /= categories[2].score
    /\ categories[3].score < categories[1].score
    /\ categories[3].score < categories[2].score
    /\ report.overallScore > categories[1].score
    /\ report.overallScore < categories[2].score

====
